---- MODULE Spec2Model ----
(***************************************************************************)
(* Epoch feature extraction of the DREAMT sleep-analysis pipeline:         *)
(* FeatureExtractor (features/extractor.py), the inter-beat-interval       *)
(* helpers of data/preprocessing.py, the declared feature list of          *)
(* scripts/train_tflite_model.py and the per-participant loops of the two  *)
(* training scripts.                                                       *)
(*                                                                         *)
(* Numbers.  Samples are integers; NaN is the sentinel NaN.  A computed    *)
(* feature value is exact: <<"q", n, d>> is the rational n/d in lowest     *)
(* terms, <<"sqrt", n, d>> is the square root of n/d, <<"ssqrt", s, n, d>> *)
(* is s * sqrt(n/d) with s the sign, <<"label", l>> is a sleep-stage       *)
(* label.  An array of floats that share a denominator (inter-beat         *)
(* intervals in ms at sampling rate fs) is [num |-> <<...>>, den |-> fs].  *)
(* A dict is a sequence of <<key, value>> pairs in insertion order.        *)
(***************************************************************************)
EXTENDS Integers, Sequences, FiniteSets, TLC

\* ------------------------------------------------------------------ bounds

MaxRows == 8
MaxPattern == 2
MaxPeaks == 3
MaxIbi == 4
MaxGaps == 4
MaxParticipants == 3
MaxSignal == 4
MaxWave == 7
MaxCalls == 2

\* ----------------------------------------------------------------- numbers

NaN == -1000

IsNaN(x) == x = NaN

Abs(x) == IF x < 0 THEN -x ELSE x

RECURSIVE GCD(_, _)
GCD(a, b) == IF b = 0 THEN a ELSE GCD(b, a % b)

Q(n, d) ==
    LET g == GCD(Abs(n), d)
    IN  <<"q", n \div g, d \div g>>

Root(n, d) ==
    LET g == GCD(n, d)
    IN  <<"sqrt", n \div g, d \div g>>

SignedRoot(s, n, d) ==
    LET g == GCD(n, d)
    IN  <<"ssqrt", s, n \div g, d \div g>>

Sign(x) == IF x < 0 THEN -1 ELSE IF x > 0 THEN 1 ELSE 0

IsZero(v) == v \in {<<"q", 0, 1>>, <<"sqrt", 0, 1>>, <<"ssqrt", 0, 0, 1>>}

RECURSIVE SumSeq(_)
SumSeq(s) == IF s = <<>> THEN 0 ELSE Head(s) + SumSeq(Tail(s))

SelectValid(s) == SelectSeq(s, LAMBDA x : ~IsNaN(x))

Diff(s) == [i \in 1..(Len(s) - 1) |-> s[i + 1] - s[i]]

Slice(s, lo, hi) == [i \in 1..(hi - lo) |-> s[lo + i]]

\* the i-th smallest element of s (1-based), as numpy's sort orders it
Sorted(s) ==
    [k \in 1..Len(s) |->
        CHOOSE v \in {s[i] : i \in 1..Len(s)} :
            /\ Cardinality({i \in 1..Len(s) : s[i] < v}) < k
            /\ Cardinality({i \in 1..Len(s) : s[i] <= v}) >= k]

MinOf(s) == CHOOSE v \in {s[i] : i \in 1..Len(s)} : \A i \in 1..Len(s) : v <= s[i]

MaxOf(s) == CHOOSE v \in {s[i] : i \in 1..Len(s)} : \A i \in 1..Len(s) : v >= s[i]

\* np.percentile(x, p) with linear interpolation, as a numerator over 100
PercentileNum(s, p) ==
    LET srt == Sorted(s)
        h   == (Len(s) - 1) * p
        lo  == h \div 100
        fr  == h % 100
    IN  IF fr = 0 THEN 100 * srt[lo + 1]
        ELSE 100 * srt[lo + 1] + fr * (srt[lo + 2] - srt[lo + 1])

\* ------------------------------------------------------------------- dicts

Keys(d) == [i \in 1..Len(d) |-> d[i][1]]

KeySet(d) == {d[i][1] : i \in 1..Len(d)}

HasKey(d, k) == k \in KeySet(d)

Get(d, k) == d[CHOOSE i \in 1..Len(d) : d[i][1] = k][2]

Put(d, k, v) ==
    IF HasKey(d, k)
    THEN [i \in 1..Len(d) |-> IF d[i][1] = k THEN <<k, v>> ELSE d[i]]
    ELSE Append(d, <<k, v>>)

\* d.update(e): a key d has keeps its place and takes e's value, new keys follow
Update(d, e) ==
    LET common == KeySet(d) \cap KeySet(e)
    IN  IF common = {} THEN d \o e
        ELSE [i \in 1..Len(d) |->
                IF d[i][1] \in common THEN <<d[i][1], Get(e, d[i][1])>> ELSE d[i]]
             \o SelectSeq(e, LAMBDA p : p[1] \notin common)

\* --------------------------------------- _compute_statistical_features

StatKey(prefix, suffix) == prefix \o "_" \o suffix

\* zero crossings counted on np.sign, where a sample equal to the mean has a
\* sign of its own
ZeroCrossings_sign(x) ==
    LET n     == Len(x)
        total == SumSeq(x)
        sign  == [i \in 1..n |-> Sign(n * x[i] - total)]
    IN  Cardinality({i \in 1..(n - 1) : sign[i] # sign[i + 1]})

\* np.sum(np.diff(np.signbit(signal_data - np.mean(signal_data))))
ZeroCrossings(x) ==
    LET n     == Len(x)
        total == SumSeq(x)
        below == [i \in 1..n |-> n * x[i] < total]
    IN  Cardinality({i \in 1..(n - 1) : below[i] # below[i + 1]})

\* the shape features left out for a constant signal
ShapeFeatures_omitted(prefix, n, d2, d3, d4) ==
    IF d2 > 0
    THEN << <<StatKey(prefix, "skew"), SignedRoot(Sign(d3), d3 * d3 * n, d2 * d2 * d2)>>,
            <<StatKey(prefix, "kurtosis"), Q(n * d4 - 3 * d2 * d2, d2 * d2)>> >>
    ELSE <<>>

\* the shape features without the test of the standard deviation: 0 / 0
ShapeFeatures_unguarded(prefix, n, d2, d3, d4) ==
    IF d2 > 0
    THEN << <<StatKey(prefix, "skew"), SignedRoot(Sign(d3), d3 * d3 * n, d2 * d2 * d2)>>,
            <<StatKey(prefix, "kurtosis"), Q(n * d4 - 3 * d2 * d2, d2 * d2)>> >>
    ELSE << <<StatKey(prefix, "skew"), <<"nan">>>>,
            <<StatKey(prefix, "kurtosis"), <<"nan">>>> >>

\* skew and kurtosis from the sums of the powers of n * x - sum(x); 0 when the
\* standard deviation is 0
ShapeFeatures(prefix, n, d2, d3, d4) ==
    << <<StatKey(prefix, "skew"),
         IF d2 > 0 THEN SignedRoot(Sign(d3), d3 * d3 * n, d2 * d2 * d2)
         ELSE Q(0, 1)>>,
       <<StatKey(prefix, "kurtosis"),
         IF d2 > 0 THEN Q(n * d4 - 3 * d2 * d2, d2 * d2)
         ELSE Q(0, 1)>> >>

_compute_statistical_features(signal_data, prefix) ==
    LET x == SelectValid(signal_data)
    IN  IF Len(x) = 0 THEN <<>>
        ELSE
        LET n    == Len(x)
            s1   == SumSeq(x)
            s2   == SumSeq([i \in 1..n |-> x[i] * x[i]])
            dev  == [i \in 1..n |-> n * x[i] - s1]
            d2   == SumSeq([i \in 1..n |-> dev[i] * dev[i]])
            d3   == SumSeq([i \in 1..n |-> dev[i] * dev[i] * dev[i]])
            d4   == SumSeq([i \in 1..n |-> dev[i] * dev[i] * dev[i] * dev[i]])
            srt  == Sorted(x)
            med  == IF n % 2 = 1 THEN Q(srt[(n + 1) \div 2], 1)
                    ELSE Q(srt[n \div 2] + srt[n \div 2 + 1], 2)
            q75  == PercentileNum(x, 75)
            q25  == PercentileNum(x, 25)
        IN  << <<StatKey(prefix, "mean"), Q(s1, n)>>,
               <<StatKey(prefix, "std"), Root(d2, n * n * n)>>,
               <<StatKey(prefix, "min"), Q(MinOf(x), 1)>>,
               <<StatKey(prefix, "max"), Q(MaxOf(x), 1)>>,
               <<StatKey(prefix, "range"), Q(MaxOf(x) - MinOf(x), 1)>>,
               <<StatKey(prefix, "median"), med>>,
               <<StatKey(prefix, "iqr"), Q(q75 - q25, 100)>> >>
            \o ShapeFeatures(prefix, n, d2, d3, d4)
            \o << <<StatKey(prefix, "energy"), Q(s2, 1)>>,
                  <<StatKey(prefix, "rms"), Root(s2, n)>>,
                  <<StatKey(prefix, "zero_crossings"), Q(ZeroCrossings(x), 1)>> >>

\* ---------------------------------------------- compute_ibi_from_peaks

\* the intervals left in seconds
compute_ibi_from_peaks_seconds(peak_indices, fs) ==
    [num |-> Diff(peak_indices), den |-> fs]

\* ibi_ms = (np.diff(peak_indices) / fs) * 1000, the factor 1000 / fs in lowest terms
compute_ibi_from_peaks(peak_indices, fs) ==
    LET ibi_samples == Diff(peak_indices)
        g == GCD(1000, fs)
    IN  [num |-> [i \in 1..Len(ibi_samples) |-> ibi_samples[i] * (1000 \div g)],
         den |-> fs \div g]

\* ------------------------------------------------ _compute_hrv_features

IBI_LOW == 300
IBI_HIGH == 2000
PNN50_MS == 50
PNN20_MS == 20

\* the band with its two ends included
FilterIbi_inclusive(ibi) ==
    [num |-> SelectSeq(ibi.num,
                 LAMBDA x : x >= IBI_LOW * ibi.den /\ x <= IBI_HIGH * ibi.den),
     den |-> ibi.den]

\* the band without its upper end
FilterIbi_lower(ibi) ==
    [num |-> SelectSeq(ibi.num, LAMBDA x : x > IBI_LOW * ibi.den),
     den |-> ibi.den]

\* ibi[(ibi > 300) & (ibi < 2000)]
FilterIbi(ibi) ==
    [num |-> SelectSeq(ibi.num,
                 LAMBDA x : x > IBI_LOW * ibi.den /\ x < IBI_HIGH * ibi.den),
     den |-> ibi.den]

\* n * sum(x^2) - sum(x)^2, which is n^2 times the variance np.std takes the root of
VarNum(x) ==
    SumSeq([i \in 1..Len(x) |->
        SumSeq([j \in 1..(i - 1) |-> (x[i] - x[j]) * (x[i] - x[j])])])

HrvStatistics(ibi) ==
    LET x   == ibi.num
        n   == Len(x)
        s1  == SumSeq(x)
        sd  == Diff(x)
        m   == Len(sd)
        sd2 == SumSeq([i \in 1..m |-> sd[i] * sd[i]])
        c50 == Cardinality({i \in 1..m : Abs(sd[i]) > PNN50_MS * ibi.den})
        c20 == Cardinality({i \in 1..m : Abs(sd[i]) > PNN20_MS * ibi.den})
    IN  << <<"hrv_mean_ibi", Q(s1, n * ibi.den)>>,
           <<"hrv_sdnn", Root(VarNum(x), n * n * ibi.den * ibi.den)>>,
           <<"hrv_rmssd", Root(sd2, m * ibi.den * ibi.den)>>,
           <<"hrv_pnn50", Q(c50 * 100, m)>>,
           <<"hrv_pnn20", Q(c20 * 100, m)>> >>

_compute_hrv_features(ibi) ==
    IF Len(ibi.num) < 2 THEN <<>>
    ELSE LET valid == FilterIbi(ibi)
         IN  IF Len(valid.num) < 2 THEN <<>> ELSE HrvStatistics(valid)

\* ------------------------------------------------------------ the table

IMU_COLUMNS == <<"ACC_X", "ACC_Y", "ACC_Z">>
AXES == <<"x", "y", "z">>
ColumnNames == {"ACC_X", "ACC_Y", "ACC_Z", "BVP", "HR", "Sleep_Stage"}

NoLabel == "nan"
\* Python's string order on the DREAMT stage names (Series.mode sorts its result)
LabelOrder == <<"Missing", "N1", "N2", "N3", "P", "R", "W">>
LabelRank(l) == CHOOSE i \in 1..Len(LabelOrder) : LabelOrder[i] = l

Min(a, b) == IF a < b THEN a ELSE b

\* df.iloc[start:end]: a slice that reaches past the last row is cut there
Iloc(df, start, end) ==
    LET lo == Min(start, df.n)
        hi == Min(end, df.n)
    IN  [columns |-> df.columns,
         n       |-> hi - lo,
         data    |-> [c \in ColumnNames |->
                        IF c \in df.columns THEN Slice(df.data[c], lo, hi) ELSE <<>>]]

\* ------------------------------------------------ _extract_imu_features

\* exact square root; the tables hold accelerations whose magnitude is an integer
Isqrt(n) == CHOOSE r \in 0..n : r * r = n

Magnitude(epoch_df) ==
    [i \in 1..epoch_df.n |->
        LET x == epoch_df.data["ACC_X"][i]
            y == epoch_df.data["ACC_Y"][i]
            z == epoch_df.data["ACC_Z"][i]
        IN  IF IsNaN(x) \/ IsNaN(y) \/ IsNaN(z) THEN NaN
            ELSE Isqrt(x * x + y * y + z * z)]

HasNaN(s) == \E i \in 1..Len(s) : IsNaN(s[i])

\* np.sum(np.abs(np.diff(magnitude))): NaN samples are not removed here, and a
\* NaN makes the differences it enters NaN
ActivityCount(magnitude) ==
    IF HasNaN(magnitude) /\ Len(magnitude) >= 2 THEN <<"nan">>
    ELSE LET d == Diff(magnitude)
         IN  Q(SumSeq([i \in 1..Len(d) |-> Abs(d[i])]), 1)

\* np.std(x) of a NaN-free integer array
StdOf(x) ==
    LET n   == Len(x)
        s1  == SumSeq(x)
        dev == [i \in 1..n |-> n * x[i] - s1]
    IN  Root(SumSeq([i \in 1..n |-> dev[i] * dev[i]]), n * n * n)

\* np.std(magnitude): NaN samples are not removed here
MovementIntensity(magnitude) ==
    IF HasNaN(magnitude) \/ Len(magnitude) = 0 THEN <<"nan">> ELSE StdOf(magnitude)

\* one pass of the loop over the axes
AxisFeatures(epoch_df, features, i) ==
    IF IMU_COLUMNS[i] \in epoch_df.columns
    THEN Update(features,
                _compute_statistical_features(epoch_df.data[IMU_COLUMNS[i]],
                                              "imu_" \o AXES[i]))
    ELSE features

_extract_imu_features(epoch_df) ==
    LET fx == AxisFeatures(epoch_df, <<>>, 1)
        fy == AxisFeatures(epoch_df, fx, 2)
        features == AxisFeatures(epoch_df, fy, 3)
    IN  IF \A i \in 1..Len(IMU_COLUMNS) : IMU_COLUMNS[i] \in epoch_df.columns
        THEN LET magnitude == Magnitude(epoch_df)
                 f1 == Update(features,
                              _compute_statistical_features(magnitude, "imu_mag"))
                 f2 == Put(f1, "imu_activity_count", ActivityCount(magnitude))
             IN  Put(f2, "imu_movement_intensity", MovementIntensity(magnitude))
        ELSE features

\* ------------------------------------------- extract_frequency_features

SPECTRAL_SUFFIXES ==
    <<"total_power", "dominant_freq", "vlf_power", "lf_power", "hf_power", "lf_hf_ratio">>

\* (low, high) of each band in mHz
BANDS == << <<"vlf", 3, 40>>, <<"lf", 40, 150>>, <<"hf", 150, 400>> >>

\* the bins k of rfftfreq(n, 1 / fs) with low <= k * fs / n < high
BandBins(n, fs, band) ==
    {k \in 0..(n \div 2) : 1000 * k * fs >= band[2] * n /\ 1000 * k * fs < band[3] * n}

\* np.sum(power[mask]): 0 for an empty mask; else the sum of |fft_vals[k]|^2 over
\* the bins of the mask, kept as the set of these bins
BandPower(x, bins) ==
    IF bins = {} THEN Q(0, 1)
    ELSE IF HasNaN(x) THEN <<"nan">>
    ELSE <<"power", bins>>

\* [raised |-> an exception escapes, features |-> the dict returned otherwise];
\* rfft raises for no sample and argmax for a spectrum of the DC bin only; NaN
\* samples are not removed.  The sum of |rfft|^2 is
\* (n * sum(x^2) + sum(x)^2 + (x0 - x1 + x2 - ...)^2 for even n) / 2
extract_frequency_features(signal_data, prefix, fs) ==
    LET n    == Len(signal_data)
        s1   == SumSeq(signal_data)
        s2   == SumSeq([i \in 1..n |-> signal_data[i] * signal_data[i]])
        alt  == SumSeq([i \in 1..n |->
                    IF i % 2 = 1 THEN signal_data[i] ELSE -signal_data[i]])
        nan  == HasNaN(signal_data)
        lf   == BandBins(n, fs, BANDS[2])
        hf   == BandBins(n, fs, BANDS[3])
    IN  IF n < 2 THEN [raised |-> TRUE, features |-> <<>>]
        ELSE [raised |-> FALSE,
              features |->
                << <<StatKey(prefix, "total_power"),
                     IF nan THEN <<"nan">>
                     ELSE Q(n * s2 + s1 * s1 + (IF n % 2 = 0 THEN alt * alt ELSE 0), 2)>>,
                   <<StatKey(prefix, "dominant_freq"),
                     IF nan \/ n \div 2 = 1 THEN Q(fs, n)
                     ELSE <<"rfftfreq", "argmax", fs, n>> >> >>
                \o [b \in 1..Len(BANDS) |->
                      <<StatKey(prefix, StatKey(BANDS[b][1], "power")),
                        BandPower(signal_data, BandBins(n, fs, BANDS[b]))>>]
                \o << <<StatKey(prefix, "lf_hf_ratio"),
                        IF hf = {} \/ nan THEN Q(0, 1)
                        ELSE <<"ratio", BandPower(signal_data, lf),
                               BandPower(signal_data, hf)>> >> >>]

\* ------------------------------------------------ _extract_ppg_features

\* what detect_ppg_peaks(bvp, fs) did: it raised, or it returned peak indices
Raised == [raises |-> TRUE, peaks |-> <<>>]
Detected(peaks) == [raises |-> FALSE, peaks |-> peaks]

HrFeatures(epoch_df) ==
    IF "HR" \in epoch_df.columns
    THEN LET hr == SelectValid(epoch_df.data["HR"])
         IN  IF Len(hr) > 0
             THEN << <<"hr_mean", Q(SumSeq(hr), Len(hr))>>,
                     <<"hr_std", StdOf(hr)>>,
                     <<"hr_min", Q(MinOf(hr), 1)>>,
                     <<"hr_max", Q(MaxOf(hr), 1)>>,
                     <<"hr_range", Q(MaxOf(hr) - MinOf(hr), 1)>> >>
             ELSE <<>>
    ELSE <<>>

\* the try block: an exception of the peak detection is swallowed
HrvFromPeaks(out, fs) ==
    IF out.raises THEN <<>>
    ELSE IF Len(out.peaks) > 2
         THEN _compute_hrv_features(compute_ibi_from_peaks(out.peaks, fs))
         ELSE <<>>

\* the HRV block placed before the heart-rate block
_extract_ppg_features_hrv_first(epoch_df, fs, out) ==
    IF "BVP" \notin epoch_df.columns
    THEN [raised |-> TRUE, features |-> <<>>]
    ELSE LET f1 == Update(<<>>,
                          _compute_statistical_features(epoch_df.data["BVP"], "ppg"))
             f2 == Update(f1, HrvFromPeaks(out, fs))
         IN  [raised |-> FALSE, features |-> Update(f2, HrFeatures(epoch_df))]

\* the peak detection called outside a try block
_extract_ppg_features_no_try(epoch_df, fs, out) ==
    IF "BVP" \notin epoch_df.columns \/ out.raises
    THEN [raised |-> TRUE, features |-> <<>>]
    ELSE LET f1 == Update(<<>>,
                          _compute_statistical_features(epoch_df.data["BVP"], "ppg"))
             f2 == Update(f1, HrFeatures(epoch_df))
         IN  [raised |-> FALSE, features |-> Update(f2, HrvFromPeaks(out, fs))]

\* the spectral features of the pulse waveform added to every epoch
_extract_ppg_features_spectral(epoch_df, fs, out) ==
    IF "BVP" \notin epoch_df.columns
    THEN [raised |-> TRUE, features |-> <<>>]
    ELSE LET f1 == Update(<<>>,
                          _compute_statistical_features(epoch_df.data["BVP"], "ppg"))
             f2 == Update(f1, HrFeatures(epoch_df))
             f3 == Update(f2, HrvFromPeaks(out, fs))
             fq == extract_frequency_features(epoch_df.data["BVP"], "ppg", fs)
         IN  [raised |-> fq.raised, features |-> Update(f3, fq.features)]

\* [raised |-> an exception escapes, features |-> the dict returned otherwise]
_extract_ppg_features(epoch_df, fs, out) ==
    IF "BVP" \notin epoch_df.columns
    THEN [raised |-> TRUE, features |-> <<>>]
    ELSE LET f1 == Update(<<>>,
                          _compute_statistical_features(epoch_df.data["BVP"], "ppg"))
             f2 == Update(f1, HrFeatures(epoch_df))
         IN  [raised |-> FALSE, features |-> Update(f2, HrvFromPeaks(out, fs))]

\* --------------------------------------------------- extract_all_features

\* the most frequent non-missing labels with the first to occur in front
Mode_first(labels) ==
    LET present == {labels[i] : i \in 1..Len(labels)} \ {NoLabel}
        Count(l) == Cardinality({i \in 1..Len(labels) : labels[i] = l})
        top == {l \in present : \A m \in present : Count(m) <= Count(l)}
    IN  IF top = {} THEN <<>>
        ELSE <<labels[CHOOSE i \in 1..Len(labels) :
                    labels[i] \in top /\ \A j \in 1..(i - 1) : labels[j] \notin top]>>

\* mode(dropna=False): a missing label counts like any other and sorts last
Mode_keepna(labels) ==
    LET present == {labels[i] : i \in 1..Len(labels)}
        Count(l) == Cardinality({i \in 1..Len(labels) : labels[i] = l})
        top == {l \in present : \A m \in present : Count(m) <= Count(l)}
    IN  SelectSeq(LabelOrder \o <<NoLabel>>, LAMBDA l : l \in top)

\* epoch_df['Sleep_Stage'].mode(): the most frequent non-missing labels, sorted
Mode(labels) ==
    LET present == {labels[i] : i \in 1..Len(labels)} \ {NoLabel}
        Count(l) == Cardinality({i \in 1..Len(labels) : labels[i] = l})
        top == {l \in present : \A m \in present : Count(m) <= Count(l)}
    IN  SelectSeq(LabelOrder, LAMBDA l : l \in top)

HasImu(df) == \A i \in 1..Len(IMU_COLUMNS) : IMU_COLUMNS[i] \in df.columns

\* the body of the for loop without the checks that the channels are there
EpochFeatures_unguarded(self, df, start, inc_imu, inc_ppg, out) ==
    LET end      == start + self.samples_per_epoch
        epoch_df == Iloc(df, start, end)
        f1  == IF inc_imu
               THEN Update(<<>>, _extract_imu_features(epoch_df))
               ELSE <<>>
        ppg == IF inc_ppg
               THEN _extract_ppg_features(epoch_df, self.fs, out)
               ELSE [raised |-> FALSE, features |-> <<>>]
        f2  == Update(f1, ppg.features)
        modes == Mode(epoch_df.data["Sleep_Stage"])
    IN  IF ppg.raised THEN [raised |-> TRUE, features |-> <<>>]
        ELSE IF "Sleep_Stage" \in df.columns
             THEN IF modes = <<>>
                  THEN [raised |-> TRUE, features |-> <<>>]
                  ELSE [raised |-> FALSE,
                        features |-> Put(f2, "Sleep_Stage", <<"label", modes[1]>>)]
             ELSE [raised |-> FALSE, features |-> f2]

\* the body of the for loop for one epoch: the features dict, or an exception
EpochFeatures(self, df, start, inc_imu, inc_ppg, out) ==
    LET end      == start + self.samples_per_epoch
        epoch_df == Iloc(df, start, end)
        f1  == IF inc_imu /\ HasImu(df)
               THEN Update(<<>>, _extract_imu_features(epoch_df))
               ELSE <<>>
        ppg == IF inc_ppg /\ "BVP" \in df.columns
               THEN _extract_ppg_features(epoch_df, self.fs, out)
               ELSE [raised |-> FALSE, features |-> <<>>]
        f2  == Update(f1, ppg.features)
        modes == Mode(epoch_df.data["Sleep_Stage"])
    IN  IF ppg.raised THEN [raised |-> TRUE, features |-> <<>>]
        ELSE IF "Sleep_Stage" \in df.columns
             THEN IF modes = <<>>
                  THEN [raised |-> TRUE, features |-> <<>>]
                  ELSE [raised |-> FALSE,
                        features |-> Put(f2, "Sleep_Stage", <<"label", modes[1]>>)]
             ELSE [raised |-> FALSE, features |-> f2]

\* pd.DataFrame(epochs): the columns are the keys in order of first appearance,
\* a key an epoch lacks is NaN in that row
RECURSIVE UnionKeys(_, _)
UnionKeys(cols, dicts) ==
    IF dicts = <<>> THEN cols
    ELSE UnionKeys(cols \o SelectSeq(Keys(Head(dicts)),
                               LAMBDA k : \A i \in 1..Len(cols) : cols[i] # k),
                   Tail(dicts))

DataFrame(dicts) ==
    CHOOSE frame \in
        {[columns |-> cols,
          rows |-> [r \in 1..Len(dicts) |->
                     [c \in 1..Len(cols) |->
                         IF HasKey(dicts[r], cols[c]) THEN Get(dicts[r], cols[c])
                         ELSE <<"nan">>]]] :
            cols \in {UnionKeys(<<>>, dicts)}} : TRUE

NoFrame == [columns |-> <<>>, rows |-> <<>>]

\* FeatureExtractor.__init__
IntOf(n, d) == n \div d

FeatureExtractor(epoch_duration, fs, overlap) ==
    LET spe == IntOf(epoch_duration * fs, 1)
    IN  [epoch_duration    |-> epoch_duration,
         fs                |-> fs,
         overlap           |-> overlap,
         samples_per_epoch |-> spe,
         step_size         |-> IntOf(spe * (overlap[2] - overlap[1]), overlap[2])]

\* the loop bound without its + 1: the last full window is lost
InRangeAt_short(n_samples, samples_per_epoch, st) == st < n_samples - samples_per_epoch

\* the loop bound without the window length: windows run past the last row
InRangeAt_past(n_samples, samples_per_epoch, st) == st < n_samples

\* st is in range(0, n_samples - samples_per_epoch + 1, step_size)
InRangeAt(n_samples, samples_per_epoch, st) == st < n_samples - samples_per_epoch + 1

\* extract_all_features as a function of its inputs; out is what detect_ppg_peaks
\* does on every epoch
RECURSIVE ExtractFrom(_, _, _, _, _, _, _)
ExtractFrom(ext, t, inc_imu, inc_ppg, out, st, acc) ==
    IF InRangeAt(t.n, ext.samples_per_epoch, st)
    THEN LET r == EpochFeatures(ext, t, st, inc_imu, inc_ppg, out)
         IN  IF r.raised THEN [raised |-> TRUE, epochs |-> <<>>]
             ELSE ExtractFrom(ext, t, inc_imu, inc_ppg, out,
                              st + ext.step_size, Append(acc, r.features))
    ELSE [raised |-> FALSE, epochs |-> acc]

extract_all_features(ext, t, inc_imu, inc_ppg, out) ==
    IF ext.step_size = 0 THEN [raised |-> TRUE, epochs |-> <<>>]
    ELSE ExtractFrom(ext, t, inc_imu, inc_ppg, out, 0, <<>>)

\* ---------------------------------------------------------- the inputs

Row(x, y, z, bvp, hr, stage) ==
    [ACC_X |-> x, ACC_Y |-> y, ACC_Z |-> z, BVP |-> bvp, HR |-> hr, Sleep_Stage |-> stage]

RowChoices ==
    { Row(0, 0, 1, 1, 60, "W"),
      Row(2, 0, 0, 3, NaN, "N1"),
      Row(NaN, NaN, NaN, NaN, NaN, NoLabel) }

RECURSIVE SeqsUpTo(_, _)
SeqsUpTo(S, n) ==
    IF n = 0 THEN {<<>>}
    ELSE LET shorter == SeqsUpTo(S, n - 1)
         IN  shorter \cup {Append(s, x) : s \in {t \in shorter : Len(t) = n - 1}, x \in S}

Patterns == SeqsUpTo(RowChoices, MaxPattern) \ {<<>>}

ColumnSets ==
    { ColumnNames,
      ColumnNames \ {"ACC_Y"},
      ColumnNames \ {"BVP"},
      ColumnNames \ {"HR"},
      ColumnNames \ {"Sleep_Stage"} }

\* the table of n rows that repeats the pattern, with the given columns
Table(pattern, n, columns) ==
    [columns |-> columns,
     n       |-> n,
     data    |-> [c \in ColumnNames |->
                    IF c \in columns
                    THEN [i \in 1..n |-> pattern[((i - 1) % Len(pattern)) + 1][c]]
                    ELSE <<>>]]

Tables == {Table(p, n, cs) : p \in Patterns, n \in 0..MaxRows, cs \in ColumnSets}

\* (epoch_duration, fs, overlap): overlap is the fraction <<numerator, denominator>>
Configs ==
    { <<1, 1, <<1, 2>>>>, <<1, 1, <<0, 1>>>>, <<1, 2, <<0, 1>>>>, <<2, 2, <<1, 2>>>>,
      <<2, 2, <<3, 4>>>>, <<2, 4, <<0, 1>>>> }

MIN_DISTANCE == <<4, 10>>

Max(a, b) == IF a > b THEN a ELSE b

\* what detect_ppg_peaks can do on an epoch of n samples: find_peaks raises for a
\* distance below 1; otherwise it raises or returns strictly increasing indices of
\* interior local maxima at least int(min_distance * fs) apart
PeakOutcomes(n, fs) ==
    LET min_samples == IntOf(MIN_DISTANCE[1] * fs, MIN_DISTANCE[2])
        gap == Max(2, min_samples)
        idx == SeqsUpTo(1..(n - 2), MaxPeaks)
    IN  IF min_samples < 1 THEN {Raised}
        ELSE {Raised} \cup
             {Detected(p) :
                p \in {q \in idx : \A i \in 1..(Len(q) - 1) : q[i + 1] - q[i] >= gap}}

\* --------------------------------------------------------------- the state

VARIABLES
    self,          \* the FeatureExtractor
    df,            \* the table passed to extract_all_features
    include_imu,
    include_ppg,
    start,         \* the loop variable of extract_all_features
    epochs,        \* the list of feature dicts built so far
    peaks_out,     \* what the last call of detect_ppg_peaks did
    windows,       \* <<start, end, len(epoch_df)>> of every iteration so far
    pc,            \* "call", "loop", "returned", "raised"
    calls,         \* the number of calls of extract_all_features on the extractor
    peak_indices,  \* the argument of compute_ibi_from_peaks
    rate,          \* its sampling rate fs
    ibi,           \* the argument of _compute_hrv_features
    hrv,           \* the dict _compute_hrv_features returned
    hpc,           \* "peaks", "ibi", "done"
    script,        \* "train_model" or "train_tflite_model"
    participants,  \* loader.participants: per participant, the file and its table
    next_pid,      \* the position of the participant loop
    attempted,     \* the participants the loop has taken up
    all_features,  \* the list of per-participant feature tables
    tpc,           \* "loop", "combined", "exit", "no_objects", "raised", "split",
                   \* "split_raised"
    train_rows,    \* the index labels of df_all (from 1) behind X_train, y_train
    test_rows,     \* the index labels of df_all behind X_test, y_test
    fn,            \* the function of preprocessing.py / extractor.py called alone
    heap,          \* the arrays alive, by object identity
    data,          \* the identity of the array passed in
    args,          \* the other arguments of the call
    ret,           \* what the call returned: an array (by identity), a dict, or nothing
    original,      \* the contents of the array passed in, at the time of the call
    spc            \* "call", "returned", "raised", "written"

extractVars ==
    <<self, df, include_imu, include_ppg, start, epochs, peaks_out, windows, pc, calls>>
hrvVars == <<peak_indices, rate, ibi, hrv, hpc>>
trainVars ==
    <<script, participants, next_pid, attempted, all_features, tpc, train_rows, test_rows>>
sigVars == <<fn, heap, data, args, ret, original, spc>>
vars == <<extractVars, hrvVars, trainVars, sigVars>>

NoArray == [num |-> <<>>, den |-> 1]

ExtractIdle ==
    /\ self = FeatureExtractor(1, 1, <<0, 1>>)
    /\ df = [columns |-> {}, n |-> 0, data |-> [c \in ColumnNames |-> <<>>]]
    /\ include_imu = TRUE
    /\ include_ppg = TRUE
    /\ start = 0
    /\ epochs = <<>>
    /\ peaks_out = Detected(<<>>)
    /\ windows = <<>>
    /\ pc = "idle"
    /\ calls = 0

HrvIdle ==
    /\ peak_indices = <<>>
    /\ rate = 1
    /\ ibi = NoArray
    /\ hrv = <<>>
    /\ hpc = "idle"

TrainIdle ==
    /\ script = "none"
    /\ participants = <<>>
    /\ next_pid = 1
    /\ attempted = <<>>
    /\ all_features = <<>>
    /\ tpc = "idle"
    /\ train_rows = {}
    /\ test_rows = {}

SigIdle ==
    /\ fn = "none"
    /\ heap = <<>>
    /\ data = 0
    /\ args = <<>>
    /\ ret = [raised |-> FALSE]
    /\ original = <<>>
    /\ spc = "idle"

Init ==
    /\ \E c \in Configs : self = FeatureExtractor(c[1], c[2], c[3])
    /\ df \in Tables
    /\ include_imu \in BOOLEAN
    /\ include_ppg \in BOOLEAN
    /\ start = 0
    /\ epochs = <<>>
    /\ peaks_out = Detected(<<>>)
    /\ windows = <<>>
    /\ pc = "call"
    /\ calls = 1
    /\ HrvIdle
    /\ TrainIdle
    /\ SigIdle

\* the loop entered whatever the step is
ExtractBegin_unchecked ==
    /\ pc = "call"
    /\ pc' = "loop"
    /\ UNCHANGED <<self, df, include_imu, include_ppg, start, epochs, peaks_out, windows>>
    /\ UNCHANGED <<calls, hrvVars, trainVars, sigVars>>

\* range(0, n_samples - samples_per_epoch + 1, step_size) raises for a zero step
ExtractBegin ==
    /\ pc = "call"
    /\ pc' = IF self.step_size = 0 THEN "raised" ELSE "loop"
    /\ UNCHANGED <<self, df, include_imu, include_ppg, start, epochs, peaks_out, windows>>
    /\ UNCHANGED <<calls, hrvVars, trainVars, sigVars>>

InRange == InRangeAt(df.n, self.samples_per_epoch, start)

UsesPpg == include_ppg /\ "BVP" \in df.columns

\* one iteration of the for loop
ExtractEpoch ==
    /\ pc = "loop"
    /\ InRange
    /\ \E out \in IF UsesPpg THEN PeakOutcomes(self.samples_per_epoch, self.fs)
                  ELSE {peaks_out} :
        LET r == EpochFeatures(self, df, start, include_imu, include_ppg, out)
        IN  /\ peaks_out' = out
            /\ windows' = Append(windows,
                    <<start, start + self.samples_per_epoch,
                      Iloc(df, start, start + self.samples_per_epoch).n>>)
            /\ IF r.raised
               THEN /\ pc' = "raised"
                    /\ UNCHANGED <<start, epochs>>
               ELSE /\ epochs' = Append(epochs, r.features)
                    /\ start' = start + self.step_size
                    /\ pc' = pc
    /\ UNCHANGED <<self, df, include_imu, include_ppg, calls>>
    /\ UNCHANGED <<hrvVars, trainVars, sigVars>>

\* the loop is exhausted: return pd.DataFrame(epochs)
ExtractReturn ==
    /\ pc = "loop"
    /\ ~InRange
    /\ pc' = "returned"
    /\ UNCHANGED <<self, df, include_imu, include_ppg, start, epochs, peaks_out, windows>>
    /\ UNCHANGED <<calls, hrvVars, trainVars, sigVars>>

\* the value extract_all_features returns
Result == IF pc = "returned" THEN DataFrame(epochs) ELSE NoFrame

\* the tables of the later calls on the same extractor
AgainTables ==
    {Table(p, MaxRows \div 2, ColumnNames) :
        p \in {q \in Patterns : Len(q) = MaxPattern /\ q[1] = Row(0, 0, 1, 1, 60, "W")}}

\* a later call that goes on with the list of epochs of the call before
ExtractAgain_kept ==
    /\ pc \in {"returned", "raised"}
    /\ calls < MaxCalls
    /\ calls' = calls + 1
    /\ df' \in AgainTables
    /\ include_imu' \in BOOLEAN
    /\ include_ppg' \in BOOLEAN
    /\ start' = 0
    /\ windows' = <<>>
    /\ pc' = "call"
    /\ UNCHANGED <<self, epochs, peaks_out>>
    /\ UNCHANGED <<hrvVars, trainVars, sigVars>>

\* the caller calls extract_all_features on the same extractor once more: the
\* arguments are new, n_samples and epochs = [] are locals of the call
ExtractAgain ==
    /\ pc \in {"returned", "raised"}
    /\ calls < MaxCalls
    /\ calls' = calls + 1
    /\ df' \in AgainTables
    /\ include_imu' \in BOOLEAN
    /\ include_ppg' \in BOOLEAN
    /\ start' = 0
    /\ epochs' = <<>>
    /\ windows' = <<>>
    /\ pc' = "call"
    /\ UNCHANGED <<self, peaks_out>>
    /\ UNCHANGED <<hrvVars, trainVars, sigVars>>

Next == ExtractBegin \/ ExtractEpoch \/ ExtractReturn \/ ExtractAgain

Spec == Init /\ [][Next]_vars

\* where the loop has a next iteration: whatever the body does, it adds a window
EpochEnabled == pc = "loop" /\ InRange

\* a call that has begun runs on: the interpreter takes the next statement of
\* extract_all_features as long as there is one; nothing makes the caller call
\* again. The last conjunct is weak fairness of ExtractEpoch with its enabling
\* condition written out
SpecFair ==
    /\ Init
    /\ [][Next]_vars
    /\ WF_vars(ExtractBegin)
    /\ WF_vars(ExtractReturn)
    /\ ([]<>(~EpochEnabled) \/ []<><<ExtractEpoch>>_vars)

\* ------------------- compute_ibi_from_peaks and _compute_hrv_features alone

\* intervals in ms around the ends of the valid band and of the pNN thresholds
IbiChoices == {300, 301, 800, 820, 850, 1999, 2000}

\* peak spacings in samples, and the sampling rates they are read at
GapChoices == {3, 8, 20, 51, 128}
RateChoices == {10, 64}

RECURSIVE PeaksFrom(_, _)
PeaksFrom(first, gaps) ==
    IF gaps = <<>> THEN <<first>>
    ELSE <<first>> \o PeaksFrom(first + Head(gaps), Tail(gaps))

InitHrv ==
    /\ ExtractIdle
    /\ TrainIdle
    /\ SigIdle
    /\ hrv = <<>>
    /\ \/ /\ hpc = "peaks"
          /\ \E gaps \in SeqsUpTo(GapChoices, MaxGaps) : peak_indices = PeaksFrom(1, gaps)
          /\ rate \in RateChoices
          /\ ibi = NoArray
       \/ /\ hpc = "ibi"
          /\ peak_indices = <<>>
          /\ rate = 1
          /\ \E x \in SeqsUpTo(IbiChoices, MaxIbi) : ibi = [num |-> x, den |-> 1]

ComputeIbi ==
    /\ hpc = "peaks"
    /\ ibi' = compute_ibi_from_peaks(peak_indices, rate)
    /\ hpc' = "ibi"
    /\ UNCHANGED <<peak_indices, rate, hrv, extractVars, trainVars, sigVars>>

ComputeHrv ==
    /\ hpc = "ibi"
    /\ hrv' = _compute_hrv_features(ibi)
    /\ hpc' = "done"
    /\ UNCHANGED <<peak_indices, rate, ibi, extractVars, trainVars, sigVars>>

NextHrv == ComputeIbi \/ ComputeHrv

SpecHrv == InitHrv /\ [][NextHrv]_vars

\* ------------------------------------- get_feature_list (train_tflite)

IMU_FEATURE_PREFIXES == <<"imu_x", "imu_y", "imu_z", "imu_mag">>

STAT_SUFFIXES ==
    <<"mean", "std", "min", "max", "range", "median", "iqr",
      "skew", "kurtosis", "energy", "rms", "zero_crossings">>

IMU_EXTRA_FEATURES == <<"imu_activity_count", "imu_movement_intensity">>

HRV_FEATURES == <<"hrv_mean_ibi", "hrv_sdnn", "hrv_rmssd", "hrv_pnn50", "hrv_pnn20">>

HR_FEATURES == <<"hr_mean", "hr_std", "hr_min", "hr_max", "hr_range">>

\* for suffix in STAT_SUFFIXES: features.append(f'{prefix}_{suffix}')
WithSuffixes(prefix) ==
    [j \in 1..Len(STAT_SUFFIXES) |-> prefix \o "_" \o STAT_SUFFIXES[j]]

get_feature_list ==
    WithSuffixes(IMU_FEATURE_PREFIXES[1]) \o WithSuffixes(IMU_FEATURE_PREFIXES[2])
    \o WithSuffixes(IMU_FEATURE_PREFIXES[3]) \o WithSuffixes(IMU_FEATURE_PREFIXES[4])
    \o IMU_EXTRA_FEATURES
    \o WithSuffixes("ppg")
    \o HR_FEATURES
    \o HRV_FEATURES

\* ------------------------------ the participant loops of the training scripts

\* the extractor of the scripts, with an epoch of two samples and no overlap
TrainExtractor == FeatureExtractor(1, 2, <<0, 1>>)

\* what loader.participants can name: a file that is gone, a recording shorter
\* than an epoch, recordings of one and two epochs, a recording without labels,
\* and recordings whose first or second epoch has no label at all
ParticipantChoices ==
    { [file |-> "missing", table |-> Table(<<Row(0, 0, 1, 1, 60, "W")>>, 0, ColumnNames)],
      [file |-> "ok", table |-> Table(<<Row(0, 0, 1, 1, 60, "W")>>, 1, ColumnNames)],
      [file |-> "ok", table |-> Table(<<Row(0, 0, 1, 1, 60, "W"),
                                        Row(2, 0, 0, 3, NaN, "N1")>>, 4,
                                      {"BVP", "HR", "Sleep_Stage"})],
      [file |-> "ok", table |-> Table(<<Row(2, 0, 0, 3, NaN, "N1")>>, 2,
                                      ColumnNames \ {"Sleep_Stage"})],
      [file |-> "ok", table |-> Table(<<Row(2, 0, 0, 3, 60, "N1"),
                                        Row(2, 0, 0, 3, 60, "N1"),
                                        Row(0, 0, 1, 1, NaN, NoLabel),
                                        Row(0, 0, 1, 1, NaN, NoLabel)>>, 4,
                                      {"BVP", "HR", "Sleep_Stage"})],
      [file |-> "ok", table |-> Table(<<Row(NaN, NaN, NaN, NaN, NaN, NoLabel)>>, 2,
                                      {"BVP", "HR", "Sleep_Stage"})] }

\* DREAMTLoader.load_participant: FileNotFoundError for a file that is not there
load_participant(p) == [raised |-> p.file # "ok", df |-> p.table]

\* features['participant'] = pid
SetParticipant(features, pid) ==
    [columns |-> features.columns \o <<"participant">>,
     rows    |-> [r \in 1..Len(features.rows) |->
                    Append(features.rows[r], <<"pid", pid>>)]]

\* the body of the try: load, extract, tag; find_peaks raises at this rate
TryParticipant(p, pid) ==
    LET loaded == load_participant(p)
        Tagged(r) ==
            IF loaded.raised \/ r.raised
            THEN [raised |-> TRUE, features |-> NoFrame]
            ELSE [raised |-> FALSE,
                  features |-> CHOOSE tagged \in
                      {SetParticipant(features, pid) :
                          features \in {DataFrame(r.epochs)}} : TRUE]
    IN  CHOOSE t \in {Tagged(r) :
                        r \in {extract_all_features(TrainExtractor, loaded.df,
                                                    TRUE, TRUE, Raised)}} : TRUE

\* extract_features_for_participant without its except clause
extract_features_for_participant_uncaught(p, pid) == TryParticipant(p, pid)

\* train_tflite_model.extract_features_for_participant: an empty table on failure
extract_features_for_participant(p, pid) ==
    CHOOSE f \in {IF t.raised THEN [raised |-> FALSE, features |-> NoFrame] ELSE t :
                    t \in {TryParticipant(p, pid)}} : TRUE

\* the rows of a table as dicts, and pd.concat(frames, ignore_index=True)
FrameDicts(frame) ==
    [r \in 1..Len(frame.rows) |->
        [c \in 1..Len(frame.columns) |-> <<frame.columns[c], frame.rows[r][c]>>]]

RECURSIVE AllDicts(_)
AllDicts(frames) ==
    IF frames = <<>> THEN <<>>
    ELSE FrameDicts(Head(frames)) \o AllDicts(Tail(frames))

Concat(frames) == DataFrame(AllDicts(frames))

InitTrain ==
    /\ ExtractIdle
    /\ HrvIdle
    /\ SigIdle
    /\ script \in {"train_model", "train_tflite_model"}
    /\ participants \in SeqsUpTo(ParticipantChoices, MaxParticipants)
    /\ next_pid = 1
    /\ attempted = <<>>
    /\ all_features = <<>>
    /\ tpc = "loop"
    /\ train_rows = {}
    /\ test_rows = {}

\* train_model.main: one iteration of the for loop with its try / except
TrainModelIteration ==
    /\ script = "train_model"
    /\ tpc = "loop"
    /\ next_pid <= Len(participants)
    /\ \E t \in {TryParticipant(participants[next_pid], next_pid)} :
          all_features' = IF t.raised THEN all_features
                          ELSE Append(all_features, t.features)
    /\ attempted' = Append(attempted, next_pid)
    /\ next_pid' = next_pid + 1
    /\ UNCHANGED <<script, participants, tpc, train_rows, test_rows,
                   extractVars, hrvVars, sigVars>>

\* train_model.main after the loop: exit when nothing was extracted, else pd.concat
TrainModelCombine ==
    /\ script = "train_model"
    /\ tpc = "loop"
    /\ next_pid > Len(participants)
    /\ tpc' = IF all_features = <<>> THEN "exit" ELSE "combined"
    /\ UNCHANGED <<script, participants, next_pid, attempted, all_features,
                   train_rows, test_rows, extractVars, hrvVars, sigVars>>

\* train_tflite_model.main: one iteration of the for loop
TfliteIteration ==
    /\ script = "train_tflite_model"
    /\ tpc = "loop"
    /\ next_pid <= Len(participants)
    /\ attempted' = Append(attempted, next_pid)
    /\ \E t \in {extract_features_for_participant(participants[next_pid], next_pid)} :
          IF t.raised
          THEN /\ tpc' = "raised"
               /\ UNCHANGED <<next_pid, all_features>>
          ELSE /\ all_features' = IF Len(t.features.rows) > 0
                                  THEN Append(all_features, t.features)
                                  ELSE all_features
               /\ next_pid' = next_pid + 1
               /\ tpc' = tpc
    /\ UNCHANGED <<script, participants, train_rows, test_rows,
                   extractVars, hrvVars, sigVars>>

\* train_tflite_model.main after the loop: pd.concat raises for an empty list
TfliteCombine ==
    /\ script = "train_tflite_model"
    /\ tpc = "loop"
    /\ next_pid > Len(participants)
    /\ tpc' = IF all_features = <<>> THEN "no_objects" ELSE "combined"
    /\ UNCHANGED <<script, participants, next_pid, attempted, all_features,
                   train_rows, test_rows, extractVars, hrvVars, sigVars>>

\* the table the script goes on with
Combined == IF tpc = "combined" THEN Concat(all_features) ELSE NoFrame

\* ----------------------------- train_tflite_model.main after pd.concat

valid_stages == <<"W", "N1", "N2", "N3", "R">>

\* filter_imu_ppg_features: the target features the table has, in the order of
\* the list, then Sleep_Stage when the table has it; df[available].copy()
filter_imu_ppg_features(frame) ==
    LET has(f) == \E c \in 1..Len(frame.columns) : frame.columns[c] = f
        at(f) == CHOOSE c \in 1..Len(frame.columns) : frame.columns[c] = f
        available == SelectSeq(get_feature_list, LAMBDA f : has(f))
                     \o (IF has("Sleep_Stage") THEN <<"Sleep_Stage">> ELSE <<>>)
    IN  [columns |-> available,
         rows    |-> [r \in 1..Len(frame.rows) |->
                        [c \in 1..Len(available) |-> frame.rows[r][at(available[c])]]]]

\* the cells of one column by index label
ColumnOf(frame, name) ==
    [r \in 1..Len(frame.rows) |->
        frame.rows[r][CHOOSE c \in 1..Len(frame.columns) : frame.columns[c] = name]]

\* df_filtered.dropna(): the index labels of the rows without a missing cell
dropna(frame) ==
    {r \in 1..Len(frame.rows) :
        \A c \in 1..Len(frame.columns) : frame.rows[r][c] # <<"nan">>}

\* df_clean[df_clean['Sleep_Stage'].isin(valid_stages)]
IsinValidStages(index, stage) ==
    {r \in index : \E v \in 1..Len(valid_stages) : stage[r] = <<"label", valid_stages[v]>>}

\* the if branch: the participants in any shuffled order, the first
\* int(len * 0.8) of them train, the others test
SplitByParticipant(index, participant) ==
    LET pids == {participant[r] : r \in index}
        n_train == (8 * Cardinality(pids)) \div 10
    IN  {[train |-> {r \in index : participant[r] \in train_pids},
          test  |-> {r \in index : participant[r] \notin train_pids}] :
            train_pids \in {t \in SUBSET pids : Cardinality(t) = n_train}}

\* sklearn's train_test_split(X, y, test_size=0.2, stratify=y): ceil(0.2 n) rows
\* test and the others train, each class shared out in proportion up to
\* rounding; ValueError for an empty side, a class of one member, or a side
\* smaller than the number of classes
train_test_split(index, y) ==
    LET n == Cardinality(index)
        n_test == (2 * n + 9) \div 10
        n_train == n - n_test
        classes == {y[r] : r \in index}
        count(rows, c) == Cardinality({r \in rows : y[r] = c})
        raised == \/ n = 0
                  \/ n_train = 0
                  \/ \E c \in classes : count(index, c) < 2
                  \/ n_train < Cardinality(classes)
                  \/ n_test < Cardinality(classes)
        Proportional(t) ==
            \A c \in classes :
                /\ count(t, c) * n < n_train * count(index, c) + n
                /\ count(t, c) * n > n_train * count(index, c) - n
    IN  [raised |-> raised,
         splits |-> IF raised THEN {}
                    ELSE {[train |-> t, test |-> index \ t] :
                            t \in {u \in SUBSET index :
                                      Cardinality(u) = n_train /\ Proportional(u)}}]

\* main from filter_imu_ppg_features to the train / test split: KeyError when
\* no table had a Sleep_Stage column
SplitOf(df_all) ==
    LET df_filtered == filter_imu_ppg_features(df_all)
        has(f) == \E c \in 1..Len(df_filtered.columns) : df_filtered.columns[c] = f
        df_clean == IsinValidStages(dropna(df_filtered),
                                    ColumnOf(df_filtered, "Sleep_Stage"))
    IN  IF ~has("Sleep_Stage") THEN [raised |-> TRUE, splits |-> {}]
        ELSE IF has("participant")
        THEN [raised |-> FALSE,
              splits |-> SplitByParticipant(df_clean, ColumnOf(df_filtered, "participant"))]
        ELSE train_test_split(df_clean, ColumnOf(df_filtered, "Sleep_Stage"))

TfliteSplit ==
    /\ script = "train_tflite_model"
    /\ tpc = "combined"
    /\ \E s \in {SplitOf(Concat(all_features))} :
          IF s.raised
          THEN /\ tpc' = "split_raised"
               /\ UNCHANGED <<train_rows, test_rows>>
          ELSE /\ tpc' = "split"
               /\ \E part \in s.splits :
                     /\ train_rows' = part.train
                     /\ test_rows' = part.test
    /\ UNCHANGED <<script, participants, next_pid, attempted, all_features,
                   extractVars, hrvVars, sigVars>>

NextTrain ==
    \/ TrainModelIteration
    \/ TrainModelCombine
    \/ TfliteIteration
    \/ TfliteCombine
    \/ TfliteSplit

SpecTrain == InitTrain /\ [][NextTrain]_vars

\* ----------------------------- the signal transforms of preprocessing.py

\* np.arange(0, stop, step) has ceil(stop / step) elements
CeilDiv(a, b) == (a + b - 1) \div b

\* the kinds of interpolation interp1d knows (those used here), and the number of
\* points the spline kinds need
INTERP_KINDS == {"linear", "nearest", "quadratic", "cubic"}

MinPoints(kind) ==
    CASE kind = "quadratic" -> 3
      [] kind = "cubic" -> 4
      [] OTHER -> 1

\* len(t_target): t_target = np.arange(0, t_original[-1], 1 / target_sr)
TargetLength(n_samples, original_sr, target_sr) ==
    CeilDiv((n_samples - 1) * target_sr, original_sr)

\* interpolator(t_target)[k] (k = 0, 1, ...): t_target[k] = k / target_sr lies
\* fr / target_sr of the way from sample i to sample i + 1; 'nearest' rounds a
\* half down; a spline passes through the samples
Interpolate(x, original_sr, target_sr, kind, k) ==
    LET i  == (k * original_sr) \div target_sr
        fr == (k * original_sr) % target_sr
    IN  IF fr = 0 THEN Q(x[i + 1], 1)
        ELSE CASE kind = "linear" ->
                    Q(x[i + 1] * target_sr + (x[i + 2] - x[i + 1]) * fr, target_sr)
               [] kind = "nearest" ->
                    Q(x[(IF 2 * fr > target_sr THEN i + 1 ELSE i) + 1], 1)
               [] OTHER -> <<"spline", kind, k>>

\* a call that raised; a call that returned a new array, put on the heap
Raises(h) == [raised |-> TRUE, heap |-> h, array |-> 0, dict |-> <<>>, denominator |-> <<>>]

ReturnsNew(h, a, den) ==
    [raised |-> FALSE, heap |-> Append(h, a), array |-> Len(h) + 1, dict |-> <<>>,
     denominator |-> den]

\* resample_signal handing back the array it was given
resample_signal_alias(h, d, original_sr, target_sr, method) ==
    [raised |-> FALSE, heap |-> h, array |-> d, dict |-> <<>>, denominator |-> <<>>]

resample_signal(h, d, original_sr, target_sr, method) ==
    IF original_sr = target_sr THEN ReturnsNew(h, h[d], <<>>)
    ELSE IF Len(h[d]) = 0 THEN Raises(h)
    ELSE IF method \notin INTERP_KINDS THEN Raises(h)
    ELSE IF Len(h[d]) < MinPoints(method) THEN Raises(h)
    ELSE ReturnsNew(h,
            [k \in 1..TargetLength(Len(h[d]), original_sr, target_sr) |->
                Interpolate(h[d], original_sr, target_sr, method, k - 1)],
            <<>>)

\* ------------------------------------------------------ normalize_signal

\* np.where(v == 0, 1, v), on the numerator of v
WhereZeroOne(v) == IF v = 0 THEN 1 ELSE v

\* twice the median
Median2(x) ==
    LET srt == Sorted(x)
        n   == Len(x)
    IN  IF n % 2 = 1 THEN 2 * srt[(n + 1) \div 2] ELSE srt[n \div 2] + srt[n \div 2 + 1]

\* normalize_signal dividing by the spread as it is
normalize_signal_unguarded(h, d, method) ==
    LET x == h[d]
        n == Len(x)
        s1 == SumSeq(x)
        v == VarNum(x)
    IN  IF method = "zscore"
        THEN IF v = 0 THEN ReturnsNew(h, [i \in 1..n |-> <<"nan">>], Root(0, 1))
             ELSE ReturnsNew(h,
                    [i \in 1..n |-> SignedRoot(Sign(n * x[i] - s1),
                                               (n * x[i] - s1) * (n * x[i] - s1), v)],
                    Root(v, n * n))
        ELSE Raises(h)

normalize_signal(h, d, method) ==
    LET x  == h[d]
        n  == Len(x)
        s1 == SumSeq(x)
        v  == VarNum(x)
        range_val == WhereZeroOne(MaxOf(x) - MinOf(x))
        iqr100    == PercentileNum(x, 75) - PercentileNum(x, 25)
    IN  CASE method = "zscore" ->
               IF v = 0
               THEN ReturnsNew(h, [i \in 1..n |-> Q(n * x[i] - s1, n)], Q(1, 1))
               ELSE ReturnsNew(h,
                      [i \in 1..n |-> SignedRoot(Sign(n * x[i] - s1),
                                                 (n * x[i] - s1) * (n * x[i] - s1), v)],
                      Root(v, n * n))
          [] method = "minmax" ->
               ReturnsNew(h, [i \in 1..n |-> Q(x[i] - MinOf(x), range_val)],
                          Q(range_val, 1))
          [] method = "robust" ->
               IF iqr100 = 0
               THEN ReturnsNew(h, [i \in 1..n |-> Q(2 * x[i] - Median2(x), 2)], Q(1, 1))
               ELSE ReturnsNew(h,
                      [i \in 1..n |-> Q(100 * (2 * x[i] - Median2(x)), 2 * iqr100)],
                      Q(iqr100, 100))
          [] OTHER -> Raises(h)

\* ----------------------------------------------- compute_activity_counts

\* compute_activity_counts that also counts the shorter window at the tail
compute_activity_counts_tail(h, d, fs, epoch_duration) ==
    LET samples_per_epoch == IntOf(epoch_duration[1] * fs, epoch_duration[2])
        n_epochs == IF samples_per_epoch = 0 THEN 0
                    ELSE CeilDiv(Len(h[d]), samples_per_epoch)
    IN  IF samples_per_epoch = 0 THEN Raises(h)
        ELSE ReturnsNew(h,
               [i \in 1..n_epochs |->
                  LET epoch_data == Slice(h[d], (i - 1) * samples_per_epoch,
                                          Min(i * samples_per_epoch, Len(h[d])))
                      m == Len(epoch_data)
                      total == SumSeq(epoch_data)
                  IN  Q(SumSeq([j \in 1..m |-> Abs(m * epoch_data[j] - total)]), m)],
               <<>>)

\* len(acc_magnitude) // samples_per_epoch raises for samples_per_epoch = 0
compute_activity_counts(h, d, fs, epoch_duration) ==
    LET samples_per_epoch == IntOf(epoch_duration[1] * fs, epoch_duration[2])
        n_epochs == IF samples_per_epoch = 0 THEN 0
                    ELSE Len(h[d]) \div samples_per_epoch
    IN  IF samples_per_epoch = 0 THEN Raises(h)
        ELSE ReturnsNew(h,
               [i \in 1..n_epochs |->
                  LET epoch_data == Slice(h[d], (i - 1) * samples_per_epoch,
                                          i * samples_per_epoch)
                      total == SumSeq(epoch_data)
                  IN  Q(SumSeq([j \in 1..samples_per_epoch |->
                                   Abs(samples_per_epoch * epoch_data[j] - total)]),
                        samples_per_epoch)],
               <<>>)

\* ------------------------------------------------------ detect_ppg_peaks

\* the elements of a set of integers in increasing order
Ascending(set) ==
    [i \in 1..Cardinality(set) |->
        CHOOSE p \in set : Cardinality({q \in set : q < p}) = i - 1]

\* the local maxima signal.find_peaks starts from: the (0-based) middle of every
\* run of equal samples that has a lower sample on each side
LocalMaxima(x) ==
    {m \in 1..(Len(x) - 2) :
        \E l \in 1..(Len(x) - 2), r \in 1..(Len(x) - 2) :
            /\ l <= r
            /\ m = (l + r) \div 2
            /\ \A j \in l..r : x[j + 1] = x[l + 1]
            /\ x[l] < x[l + 1]
            /\ x[r + 2] < x[l + 1]}

\* the peaks from the highest to the lowest, the order in which the distance
\* rule of find_peaks takes them up; later_first says which of two peaks of the
\* same height comes first (the order of equal keys in np.argsort)
RECURSIVE ByPriority(_, _, _)
ByPriority(x, peaks, later_first) ==
    IF peaks = {} THEN <<>>
    ELSE LET top == {p \in peaks : \A q \in peaks : x[q + 1] <= x[p + 1]}
             p   == IF later_first THEN CHOOSE a \in top : \A q \in top : q <= a
                    ELSE CHOOSE a \in top : \A q \in top : a <= q
         IN  <<p>> \o ByPriority(x, peaks \ {p}, later_first)

\* the distance rule of find_peaks: a peak that is still kept removes every
\* other peak closer than distance samples
RECURSIVE SelectByDistance(_, _, _)
SelectByDistance(order, keep, distance) ==
    IF order = <<>> THEN keep
    ELSE LET j == Head(order)
         IN  IF j \in keep
             THEN SelectByDistance(Tail(order),
                                   {k \in keep : k = j \/ Abs(k - j) >= distance},
                                   distance)
             ELSE SelectByDistance(Tail(order), keep, distance)

\* the prominence of the peak at p: its height above the higher of the lowest
\* samples met on each side before a sample higher than the peak
Prominence(x, p) ==
    LET left  == {j \in 0..p : \A k \in j..p : x[k + 1] <= x[p + 1]}
        right == {j \in p..(Len(x) - 1) : \A k \in p..j : x[k + 1] <= x[p + 1]}
        left_min  == CHOOSE v \in {x[j + 1] : j \in left} :
                        \A j \in left : v <= x[j + 1]
        right_min == CHOOSE v \in {x[j + 1] : j \in right} :
                        \A j \in right : v <= x[j + 1]
    IN  x[p + 1] - Max(left_min, right_min)

\* prominence >= np.std(bvp) * 0.3, both sides squared
Prominent(x, p) ==
    100 * Prominence(x, p) * Prominence(x, p) * Len(x) * Len(x) >= 9 * VarNum(x)

\* the tuple returned: the array of peak indices and the array of peak values
ReturnsPeaks(h, bvp, peaks) ==
    [raised |-> FALSE,
     heap |-> h \o << Ascending(peaks), [i \in 1..Cardinality(peaks) |->
                                           bvp[Ascending(peaks)[i] + 1]] >>,
     array |-> Len(h) + 1, dict |-> <<>>, denominator |-> <<>>]

\* detect_ppg_peaks calling find_peaks without the distance argument
detect_ppg_peaks_no_distance(h, d, fs, later_first) ==
    LET bvp == h[d]
        min_samples == IntOf(MIN_DISTANCE[1] * fs, MIN_DISTANCE[2])
    IN  IF min_samples < 1 THEN Raises(h)
        ELSE ReturnsPeaks(h, bvp, {p \in LocalMaxima(bvp) : Prominent(bvp, p)})

\* find_peaks raises for a distance below 1; it applies the distance rule to the
\* local maxima and then the prominence rule to what is left
detect_ppg_peaks(h, d, fs, later_first) ==
    LET bvp == h[d]
        min_samples == IntOf(MIN_DISTANCE[1] * fs, MIN_DISTANCE[2])
    IN  IF min_samples < 1 THEN Raises(h)
        ELSE ReturnsPeaks(h, bvp,
               {p \in SelectByDistance(ByPriority(bvp, LocalMaxima(bvp), later_first),
                                       LocalMaxima(bvp), min_samples) :
                   Prominent(bvp, p)})

\* ------------------------------------ resolution strings (helpers, loader)

\* a call that returned a value that is not an array of the caller's
ReturnsValue(h, v) ==
    [raised |-> FALSE, heap |-> h, array |-> 0, dict |-> <<>>, denominator |-> <<>>,
     value |-> v]

resolution_map == << <<"64Hz", Q(64, 1)>>, <<"100Hz", Q(100, 1)>> >>

get_sampling_rate(h, resolution) ==
    IF ~HasKey(resolution_map, resolution) THEN Raises(h)
    ELSE ReturnsValue(h, Get(resolution_map, resolution))

\* DREAMTLoader(data_dir, resolution), data_dir holding a folder data_<r> for
\* every r in folders: _validate_data_dir raises when data_<resolution> is not there
DREAMTLoader(folders, resolution) ==
    [raised |-> resolution \notin folders, resolution |-> resolution]

\* sr = 64 if self.resolution == '64Hz' else 100
LoaderRate(loader) == IF loader.resolution = "64Hz" THEN 64 ELSE 100

\* h[d] is the TIMESTAMP column of df when df has one, else any column of df
get_time_vector(h, d, loader, has_timestamp) ==
    IF has_timestamp
    THEN [raised |-> FALSE, heap |-> h, array |-> d, dict |-> <<>>, denominator |-> <<>>]
    ELSE ReturnsNew(h, [i \in 1..Len(h[d]) |-> Q(i - 1, LoaderRate(loader))], <<>>)

\* the list of epochs, each the rows of df it holds; range() raises for a step of 0
get_epoch_data(h, d, loader, epoch_duration) ==
    LET sr == LoaderRate(loader)
        samples_per_epoch == IntOf(epoch_duration[1] * sr, epoch_duration[2])
        n == Len(h[d])
    IN  IF samples_per_epoch = 0 THEN Raises(h)
        ELSE ReturnsValue(h,
               [k \in 1..(n \div samples_per_epoch) |->
                   Slice(h[d], (k - 1) * samples_per_epoch, k * samples_per_epoch)])

\* ------------------------------------------- the transforms called alone

SampleChoices == {-2, 0, 1, 3}

Signals == SeqsUpTo(SampleChoices, MaxSignal)

\* channels with missing samples, for _compute_statistical_features
Channels == SeqsUpTo(SampleChoices \cup {NaN}, MaxSignal)

\* (original_sr, target_sr)
RatePairs == {<<1, 1>>, <<2, 2>>, <<1, 2>>, <<2, 1>>, <<2, 3>>, <<3, 1>>}

ResampleMethods == INTERP_KINDS \cup {"bogus"}

NormalizeMethods == {"zscore", "minmax", "robust", "bogus"}

\* (fs, epoch_duration), the duration a fraction
CountWindows == {<<1, <<1, 1>>>>, <<2, <<1, 1>>>>, <<3, <<1, 1>>>>, <<1, <<1, 2>>>>}

\* pulse waveforms, and the sampling rates their peaks are looked for at
WaveChoices == {0, 1, 3}
Waves == SeqsUpTo(WaveChoices, MaxWave)
PeakRates == {2, 5, 8, 10}

\* resolution strings, the data folders there are, and epoch durations in seconds
Resolutions == {"64Hz", "100Hz", "32Hz"}
FolderChoices == {{"64Hz", "100Hz"}, {"64Hz"}, {"32Hz", "64Hz"}}
LoaderDurations == {<<1, 32>>, <<1, 128>>}

NotReturned == [raised |-> FALSE, heap |-> <<>>, array |-> 0, dict |-> <<>>,
                denominator |-> <<>>]

InitSignal ==
    /\ ExtractIdle
    /\ HrvIdle
    /\ TrainIdle
    /\ data = 1
    /\ ret = NotReturned
    /\ spc = "call"
    /\ \/ /\ fn = "_compute_statistical_features"
          /\ original \in Channels
          /\ \E prefix \in {"ppg", "imu_mag"} : args = [prefix |-> prefix]
       \/ /\ fn = "resample_signal"
          /\ original \in Signals
          /\ \E r \in RatePairs, method \in ResampleMethods :
                args = [original_sr |-> r[1], target_sr |-> r[2], method |-> method]
       \/ /\ fn = "normalize_signal"
          /\ original \in Signals \ {<<>>}
          /\ \E method \in NormalizeMethods : args = [method |-> method]
       \/ /\ fn = "compute_activity_counts"
          /\ original \in Signals
          /\ \E w \in CountWindows : args = [fs |-> w[1], epoch_duration |-> w[2]]
       \/ /\ fn = "get_sampling_rate"
          /\ original = <<>>
          /\ \E resolution \in Resolutions : args = [resolution |-> resolution]
       \/ /\ fn = "get_time_vector"
          /\ original \in Signals
          /\ \E resolution \in Resolutions, folders \in FolderChoices,
                has_timestamp \in BOOLEAN :
                args = [resolution |-> resolution, folders |-> folders,
                        has_timestamp |-> has_timestamp]
       \/ /\ fn = "get_epoch_data"
          /\ original \in Signals
          /\ \E resolution \in Resolutions, folders \in FolderChoices,
                epoch_duration \in LoaderDurations :
                args = [resolution |-> resolution, folders |-> folders,
                        epoch_duration |-> epoch_duration]
       \/ /\ fn = "detect_ppg_peaks"
          /\ original \in Waves
          /\ \E fs \in PeakRates, later_first \in BOOLEAN :
                args = [fs |-> fs, later_first |-> later_first]
    /\ heap = <<original>>

Returned(r) ==
    /\ ret' = r
    /\ heap' = r.heap
    /\ spc' = IF r.raised THEN "raised" ELSE "returned"
    /\ UNCHANGED <<fn, data, args, original, extractVars, hrvVars, trainVars>>

CallStatistics ==
    /\ spc = "call"
    /\ fn = "_compute_statistical_features"
    /\ Returned([raised |-> FALSE, heap |-> heap, array |-> 0,
                 dict |-> _compute_statistical_features(heap[data], args.prefix),
                 denominator |-> <<>>])

CallResample ==
    /\ spc = "call"
    /\ fn = "resample_signal"
    /\ Returned(resample_signal(heap, data, args.original_sr, args.target_sr, args.method))

CallNormalize ==
    /\ spc = "call"
    /\ fn = "normalize_signal"
    /\ Returned(normalize_signal(heap, data, args.method))

CallActivityCounts ==
    /\ spc = "call"
    /\ fn = "compute_activity_counts"
    /\ Returned(compute_activity_counts(heap, data, args.fs, args.epoch_duration))

CallDetectPeaks ==
    /\ spc = "call"
    /\ fn = "detect_ppg_peaks"
    /\ Returned(detect_ppg_peaks(heap, data, args.fs, args.later_first))

CallGetSamplingRate ==
    /\ spc = "call"
    /\ fn = "get_sampling_rate"
    /\ Returned(get_sampling_rate(heap, args.resolution))

\* loader = DREAMTLoader(data_dir, resolution); loader.get_time_vector(df)
CallGetTimeVector ==
    /\ spc = "call"
    /\ fn = "get_time_vector"
    /\ \E loader \in {DREAMTLoader(args.folders, args.resolution)} :
          Returned(IF loader.raised THEN Raises(heap)
                   ELSE get_time_vector(heap, data, loader, args.has_timestamp))

\* loader = DREAMTLoader(data_dir, resolution); loader.get_epoch_data(df, epoch_duration)
CallGetEpochData ==
    /\ spc = "call"
    /\ fn = "get_epoch_data"
    /\ \E loader \in {DREAMTLoader(args.folders, args.resolution)} :
          Returned(IF loader.raised THEN Raises(heap)
                   ELSE get_epoch_data(heap, data, loader, args.epoch_duration))

\* the caller changes one element of the array resample_signal gave back for
\* equal rates
WriteResult ==
    /\ spc = "returned"
    /\ fn = "resample_signal"
    /\ args.original_sr = args.target_sr
    /\ \E i \in 1..Len(heap[ret.array]) :
          heap' = [heap EXCEPT ![ret.array][i] = @ + 1]
    /\ spc' = "written"
    /\ UNCHANGED <<fn, data, args, ret, original, extractVars, hrvVars, trainVars>>

NextSignal ==
    \/ CallStatistics \/ CallResample \/ CallNormalize \/ CallActivityCounts
    \/ CallDetectPeaks \/ CallGetSamplingRate \/ CallGetTimeVector \/ CallGetEpochData
    \/ WriteResult

SpecSignal == InitSignal /\ [][NextSignal]_vars

\* ------------------------------------------------------------ properties

E == self.samples_per_epoch
S == self.step_size

Last(s) == s[Len(s)]

\* C1: when extract_all_features returns for a table of N rows, with E =
\* samples_per_epoch and S = step_size >= 1, the table returned has exactly
\* floor((N - E) / S) + 1 rows when N >= E and no row when N < E.
C1_EpochCount ==
    (pc = "returned" /\ E >= 1 /\ S >= 1) =>
        Len(Result.rows) = IF df.n >= E THEN ((df.n - E) \div S) + 1 ELSE 0

\* two or more epochs were returned and the rows left over do not fill a step
C1_Witness ==
    /\ pc = "returned"
    /\ Len(Result.rows) >= 2
    /\ (df.n - E) % S # 0

\* C2: the k-th epoch processed (k = 0, 1, ...) is the row range
\* [k * step_size, k * step_size + samples_per_epoch), it holds exactly
\* samples_per_epoch rows and ends at or before the last row; the loop variable
\* only moves forward by step_size.
C2_EpochWindows ==
    /\ \A k \in 1..Len(windows) :
        /\ windows[k][1] = (k - 1) * S
        /\ windows[k][2] = windows[k][1] + E
        /\ windows[k][3] = E
        /\ windows[k][2] <= df.n
    /\ pc \in {"loop", "returned"} => start = Len(epochs) * S
    /\ pc = "returned" => (Len(windows) = Len(epochs) /\ start + E > df.n)

\* the call returned two or more epochs and dropped a trailing partial window
C2_Witness ==
    /\ pc = "returned"
    /\ Len(windows) >= 2
    /\ Last(windows)[2] < df.n

\* the labels of the rows of the k-th epoch (k = 1, 2, ...)
WindowLabels(k) == Slice(df.data["Sleep_Stage"], (k - 1) * S, (k - 1) * S + E)

CountIn(labels, l) == Cardinality({i \in 1..Len(labels) : labels[i] = l})

FirstIndex(labels, l) == CHOOSE i \in 1..Len(labels) :
    labels[i] = l /\ \A j \in 1..(i - 1) : labels[j] # l

Present(labels) == {labels[i] : i \in 1..Len(labels)} \ {NoLabel}

EpochLabel(k) == Get(epochs[k], "Sleep_Stage")[2]

MostFrequent(labels, l) ==
    /\ l \in Present(labels)
    /\ \A m \in Present(labels) : CountIn(labels, m) <= CountIn(labels, l)

\* C4 as claimed: the label of an epoch is a most frequent label of its rows, and
\* of several tied labels the one whose first occurrence comes earliest.
C4_FirstOccurrenceTieBreak ==
    "Sleep_Stage" \in df.columns =>
        \A k \in 1..Len(epochs) :
            /\ MostFrequent(WindowLabels(k), EpochLabel(k))
            /\ \A m \in Present(WindowLabels(k)) :
                MostFrequent(WindowLabels(k), m) =>
                    FirstIndex(WindowLabels(k), EpochLabel(k))
                        <= FirstIndex(WindowLabels(k), m)

\* C4 as amended: the label of an epoch is a most frequent label among the
\* non-missing labels of its rows, and of several tied labels the one that comes
\* first in sorted (string) order.
C4_SortedTieBreak ==
    "Sleep_Stage" \in df.columns =>
        \A k \in 1..Len(epochs) :
            /\ MostFrequent(WindowLabels(k), EpochLabel(k))
            /\ \A m \in Present(WindowLabels(k)) :
                MostFrequent(WindowLabels(k), m) =>
                    LabelRank(EpochLabel(k)) <= LabelRank(m)

\* an epoch whose rows tie W (first to occur) with N1, labelled N1
C4_Witness ==
    /\ "Sleep_Stage" \in df.columns
    /\ \E k \in 1..Len(epochs) :
        /\ WindowLabels(k)[1] = "W"
        /\ CountIn(WindowLabels(k), "W") = CountIn(WindowLabels(k), "N1")
        /\ EpochLabel(k) = "N1"

AllGroups(d) ==
    {"imu_x_mean", "imu_y_mean", "imu_z_mean", "imu_mag_mean", "imu_activity_count",
     "ppg_mean", "hr_mean", "hrv_mean_ibi"} \subseteq KeySet(d)

\* C10: the feature list declared for the embedded target equals, name for name
\* and position for position, the keys of an epoch in which every feature group is
\* emitted (the label aside), and it names no feature twice.
C10_FeatureListParity ==
    /\ \A k \in 1..Len(epochs) :
        AllGroups(epochs[k]) =>
            SelectSeq(Keys(epochs[k]), LAMBDA key : key # "Sleep_Stage") = get_feature_list
    /\ Cardinality({get_feature_list[i] : i \in 1..Len(get_feature_list)})
        = Len(get_feature_list)

\* an epoch with IMU, PPG, heart-rate and HRV features
C10_Witness == \E k \in 1..Len(epochs) : AllGroups(epochs[k])

\* C3 as claimed: the column names of the table returned depend only on the
\* configuration and on which channels the table has: every table with the same
\* columns and as many rows, extracted with the same configuration, gives the
\* same header.
C3_HeaderValueIndependent ==
    pc = "returned" =>
        \A t \in Tables :
            (t.columns = df.columns /\ t.n = df.n) =>
                LET r == extract_all_features(self, t, include_imu, include_ppg,
                                              Detected(<<>>))
                IN  ~r.raised => DataFrame(r.epochs).columns = Result.columns

ImuFeatureNames == {get_feature_list[i] : i \in 1..50}

PpgFeatureNames == {get_feature_list[i] : i \in 51..Len(get_feature_list)}

AbsentRequested ==
    \/ include_imu /\ ~HasImu(df)
    \/ include_ppg /\ "BVP" \notin df.columns

C6_Step ==
    (pc = "loop" /\ InRange /\ AbsentRequested) =>
        LET r0 == EpochFeatures(self, df, start,
                                include_imu /\ HasImu(df),
                                include_ppg /\ "BVP" \in df.columns,
                                peaks_out')
        IN  /\ (pc' = "raised") <=> r0.raised
            /\ ~r0.raised =>
                /\ epochs' = Append(epochs, r0.features)
                /\ ~HasImu(df) => KeySet(Last(epochs')) \cap ImuFeatureNames = {}
                /\ "BVP" \notin df.columns =>
                        KeySet(Last(epochs')) \cap PpgFeatureNames = {}

\* C6: in a table that lacks a channel of a requested modality (an ACC axis for
\* IMU, BVP for PPG) every epoch is processed exactly as with that modality
\* disabled: it raises only where the disabled run raises, it carries no feature
\* of the absent modality, and its other features and its label are those of the
\* disabled run.
C6_AbsentModalitySkipped == [][C6_Step]_vars

\* IMU requested without ACC_Y: the call returned epochs that carry PPG features
C6_Witness ==
    /\ pc = "returned"
    /\ include_imu /\ ~HasImu(df)
    /\ include_ppg /\ "BVP" \in df.columns
    /\ Len(epochs) >= 1
    /\ HasKey(epochs[1], "ppg_mean")
    /\ HasKey(epochs[1], "Sleep_Stage")

HasHrv(d) == KeySet(d) \cap {HRV_FEATURES[i] : i \in 1..Len(HRV_FEATURES)} # {}

C8_Step ==
    (pc = "loop" /\ InRange /\ UsesPpg) =>
        /\ pc' = "raised" =>
            ("Sleep_Stage" \in df.columns /\ Present(WindowLabels(Len(epochs) + 1)) = {})
        /\ pc' # "raised" =>
            /\ Len(epochs') = Len(epochs) + 1
            /\ HasKey(Last(epochs'), "hrv_mean_ibi") = HasHrv(Last(epochs'))
            /\ HasHrv(Last(epochs')) =>
                (~peaks_out'.raises /\ Len(peaks_out'.peaks) >= 3)

\* C8: an epoch carries HRV features only if the peak detection returned at least
\* 3 peaks for it; with fewer peaks, or when the peak detection raises, the epoch
\* is still emitted, without any hrv_* key, and no exception escapes (the only
\* exception of an iteration is that of an epoch without any label).
C8_HrvNeedsThreePeaks == [][C8_Step]_vars

\* an epoch for which two peaks were detected: PPG features but no HRV feature
C8_Witness ==
    /\ UsesPpg
    /\ Len(epochs) >= 1
    /\ ~peaks_out.raises
    /\ Len(peaks_out.peaks) = 2
    /\ HasKey(Last(epochs), "ppg_mean")
    /\ ~HasHrv(Last(epochs))

\* the intervals of ibi that are neither <= 300 ms nor >= 2000 ms, in their order
Surviving ==
    SelectSeq(ibi.num,
        LAMBDA x : ~(x <= IBI_LOW * ibi.den \/ x >= IBI_HIGH * ibi.den))

\* C7: _compute_hrv_features drops every interval <= 300 ms or >= 2000 ms before
\* it computes anything: its result is its result on the surviving intervals
\* alone, hrv_mean_ibi is their mean and the pNN features count their successive
\* differences; with fewer than 2 survivors the result has no key at all, with 2
\* or more it has the five HRV keys.
C7_IbiFilteredFirst ==
    hpc = "done" =>
        LET surv == Surviving
            m    == Len(surv) - 1
        IN  /\ Len(surv) < 2 => hrv = <<>>
            /\ Len(surv) >= 2 =>
                /\ Keys(hrv) = HRV_FEATURES
                /\ hrv = _compute_hrv_features([num |-> surv, den |-> ibi.den])
                /\ Get(hrv, "hrv_mean_ibi") = Q(SumSeq(surv), Len(surv) * ibi.den)
                /\ Get(hrv, "hrv_pnn50") =
                    Q(100 * Cardinality({i \in 1..m :
                        Abs(surv[i + 1] - surv[i]) > PNN50_MS * ibi.den}), m)
                /\ Get(hrv, "hrv_pnn20") =
                    Q(100 * Cardinality({i \in 1..m :
                        Abs(surv[i + 1] - surv[i]) > PNN20_MS * ibi.den}), m)

\* intervals of exactly 300 ms and 2000 ms were dropped and two or more survive
C7_Witness ==
    /\ hpc = "done"
    /\ \E i \in 1..Len(ibi.num) : ibi.num[i] = IBI_LOW * ibi.den
    /\ \E i \in 1..Len(ibi.num) : ibi.num[i] = IBI_HIGH * ibi.den
    /\ Len(Surviving) >= 2
    /\ HasKey(hrv, "hrv_sdnn")

\* the peaks are d samples apart, d > 0
EvenlySpaced(d) ==
    \A i \in 1..(Len(peak_indices) - 1) : peak_indices[i + 1] - peak_indices[i] = d

\* C9: for 3 or more peaks evenly spaced d samples apart at rate fs with
\* 300 < 1000 * d / fs < 2000, every inter-beat interval is 1000 * d / fs ms and
\* the HRV features are hrv_mean_ibi = 1000 * d / fs and hrv_sdnn = hrv_rmssd =
\* hrv_pnn50 = hrv_pnn20 = 0.
C9_EvenPeaks ==
    \A d \in GapChoices :
        ( /\ hpc = "done"
          /\ Len(peak_indices) >= 3
          /\ EvenlySpaced(d)
          /\ IBI_LOW * rate < 1000 * d
          /\ 1000 * d < IBI_HIGH * rate ) =>
            /\ Len(ibi.num) = Len(peak_indices) - 1
            /\ \A i \in 1..Len(ibi.num) : ibi.num[i] * rate = 1000 * d * ibi.den
            /\ hrv = << <<"hrv_mean_ibi", Q(1000 * d, rate)>>,
                        <<"hrv_sdnn", Root(0, 1)>>,
                        <<"hrv_rmssd", Root(0, 1)>>,
                        <<"hrv_pnn50", Q(0, 1)>>,
                        <<"hrv_pnn20", Q(0, 1)>> >>

\* five peaks 800 ms apart (8 samples at 10 Hz): mean 800, the rest 0
C9_Witness ==
    /\ hpc = "done"
    /\ Len(peak_indices) = 5
    /\ rate = 10
    /\ EvenlySpaced(8)
    /\ Get(hrv, "hrv_mean_ibi") = Q(800, 1)
    /\ IsZero(Get(hrv, "hrv_rmssd"))

\* ---- C5: a participant whose load or extraction raises is left out of the
\* aggregate and does not stop the loop: when the loop is over every participant
\* has been taken up, every row of the aggregate carries the id of a participant
\* that did not fail, the ids appear in participant order, and the rows of each
\* such participant are exactly the rows its extraction returns
Fails(p) ==
    \/ p.file # "ok"
    \/ extract_all_features(TrainExtractor, p.table, TRUE, TRUE, Raised).raised

OwnRows(p, pid) ==
    FrameDicts(SetParticipant(
        DataFrame(extract_all_features(TrainExtractor, p.table, TRUE, TRUE, Raised).epochs),
        pid))

PidOf(row) == Get(row, "participant")[2]

C5_FailedParticipantsExcluded ==
    LET rows  == AllDicts(all_features)
        done  == 1..(next_pid - 1)
        fails == [i \in done |-> Fails(participants[i])]
        own   == [i \in done |-> IF fails[i] THEN <<>> ELSE OwnRows(participants[i], i)]
    IN  /\ tpc # "raised"
        /\ attempted = [i \in done |-> i]
        /\ tpc # "loop" => attempted = [i \in 1..Len(participants) |-> i]
        /\ \A r \in 1..Len(rows) : PidOf(rows[r]) \in done /\ ~fails[PidOf(rows[r])]
        /\ \A r \in 1..(Len(rows) - 1) : PidOf(rows[r]) <= PidOf(rows[r + 1])
        /\ \A i \in done :
              ~fails[i] => SelectSeq(rows, LAMBDA row : PidOf(row) = i) = own[i]
        /\ tpc = "combined" => Len(Combined.rows) = Len(rows)

\* the loop is over, the second of three participants failed after a first
\* complete epoch, and the first and the third have their rows in the aggregate
C5_Witness ==
    /\ tpc = "combined"
    /\ Len(participants) = 3
    /\ participants[2].file = "ok"
    /\ participants[2].table.n = 4
    /\ Fails(participants[2])
    /\ {PidOf(AllDicts(all_features)[r]) : r \in 1..Len(AllDicts(all_features))} = {1, 3}
    /\ Len(Combined.rows) = 3

\* ---- C11 as claimed: when the table has a Sleep_Stage column and at least one
\* epoch is produced, Sleep_Stage is the last column of the table returned.
C11_LabelColumnLast ==
    (pc = "returned" /\ "Sleep_Stage" \in df.columns /\ Len(epochs) >= 1) =>
        Last(Result.columns) = "Sleep_Stage"

\* ---- C12: for a channel with at least one sample that is not NaN,
\* _compute_statistical_features with prefix p returns exactly the twelve keys
\* p_mean, p_std, p_min, p_max, p_range, p_median, p_iqr, p_skew, p_kurtosis,
\* p_energy, p_rms, p_zero_crossings in this order, whatever the samples are, and
\* p_range = p_max - p_min.
C12_TwelveKeys ==
    (fn = "_compute_statistical_features" /\ spc = "returned"
        /\ SelectValid(original) # <<>>) =>
        /\ Keys(ret.dict) = [i \in 1..12 |-> StatKey(args.prefix, STAT_SUFFIXES[i])]
        /\ Len(STAT_SUFFIXES) = 12
        /\ Get(ret.dict, StatKey(args.prefix, "range")) =
              Q(Get(ret.dict, StatKey(args.prefix, "max"))[2]
                  - Get(ret.dict, StatKey(args.prefix, "min"))[2], 1)

\* a channel with a missing sample whose other samples are all equal
C12_Witness ==
    /\ fn = "_compute_statistical_features"
    /\ spc = "returned"
    /\ HasNaN(original)
    /\ Len(SelectValid(original)) >= 2
    /\ Cardinality({original[i] : i \in 1..Len(original)}) = 2
    /\ Len(ret.dict) = 12

\* the rows of the k-th epoch (k = 1, 2, ...)
EpochRows(k) == Iloc(df, (k - 1) * S, (k - 1) * S + E)

\* the keys of dict d that belong to the channel with this prefix
ChannelKeys(d, prefix) ==
    {key \in KeySet(d) : \E i \in 1..Len(STAT_SUFFIXES) : key = StatKey(prefix, STAT_SUFFIXES[i])}

\* the statistics of a channel are those of its samples that are not NaN, and a
\* channel without such a sample has no key
OverValidSamples(d, samples, prefix) ==
    LET valid == SelectValid(samples)
    IN  IF valid = <<>> THEN ChannelKeys(d, prefix) = {}
        ELSE \A i \in 1..Len(STAT_SUFFIXES) :
                /\ HasKey(d, StatKey(prefix, STAT_SUFFIXES[i]))
                /\ Get(d, StatKey(prefix, STAT_SUFFIXES[i]))
                     = Get(_compute_statistical_features(valid, prefix),
                           StatKey(prefix, STAT_SUFFIXES[i]))

\* ---- C13 as claimed: in every epoch every feature of a channel (each axis, the
\* magnitude with imu_activity_count and imu_movement_intensity, the pulse
\* waveform) is computed over exactly the samples of the channel that are not
\* NaN, and a channel without such a sample contributes no key.
C13_NaNSamplesExcluded ==
    \A k \in 1..Len(epochs) :
        /\ (include_imu /\ HasImu(df)) =>
              /\ \A i \in 1..Len(IMU_COLUMNS) :
                    OverValidSamples(epochs[k], EpochRows(k).data[IMU_COLUMNS[i]],
                                     "imu_" \o AXES[i])
              /\ OverValidSamples(epochs[k], Magnitude(EpochRows(k)), "imu_mag")
              /\ LET valid == SelectValid(Magnitude(EpochRows(k)))
                 IN  IF valid = <<>>
                     THEN /\ ~HasKey(epochs[k], "imu_activity_count")
                          /\ ~HasKey(epochs[k], "imu_movement_intensity")
                     ELSE /\ Get(epochs[k], "imu_activity_count") = ActivityCount(valid)
                          /\ Get(epochs[k], "imu_movement_intensity") = StdOf(valid)
        /\ UsesPpg => OverValidSamples(epochs[k], EpochRows(k).data["BVP"], "ppg")

\* every sample is a number and all samples are equal
Constant(x) ==
    /\ Len(x) >= 1
    /\ ~HasNaN(x)
    /\ \A i \in 1..Len(x) : x[i] = x[1]

StatPrefixes == {"imu_x", "imu_y", "imu_z", "imu_mag", "ppg"}

HR_KEYS == <<"hr_mean", "hr_std", "hr_min", "hr_max", "hr_range">>

\* ---- C15 as claimed: for every epoch, if the table has an HR column with at
\* least one non-missing sample in the epoch, hr_mean, hr_std, hr_min, hr_max and
\* hr_range are emitted, computed over exactly the non-missing HR samples, with
\* hr_range = hr_max - hr_min; if every HR sample of the epoch is missing, none of
\* the five is emitted.
C15_HeartRateFeatures ==
    \A k \in 1..Len(epochs) :
        "HR" \in df.columns =>
            LET hr == SelectValid(EpochRows(k).data["HR"])
            IN  IF hr = <<>>
                THEN \A i \in 1..Len(HR_KEYS) : ~HasKey(epochs[k], HR_KEYS[i])
                ELSE /\ \A i \in 1..Len(HR_KEYS) : HasKey(epochs[k], HR_KEYS[i])
                     /\ Get(epochs[k], "hr_mean") = Q(SumSeq(hr), Len(hr))
                     /\ Get(epochs[k], "hr_std") = StdOf(hr)
                     /\ Get(epochs[k], "hr_min") = Q(MinOf(hr), 1)
                     /\ Get(epochs[k], "hr_max") = Q(MaxOf(hr), 1)
                     /\ Get(epochs[k], "hr_range") = Q(MaxOf(hr) - MinOf(hr), 1)

\* ---- C16: for every signal s, every rate r and every method argument,
\* resample_signal(s, r, r, method) returns (it does not raise) an array equal to
\* s element for element; the array is a new object, so a write to it does not
\* change s, and the call itself leaves s as it was.
C16_EqualRatesCopy ==
    (fn = "resample_signal" /\ args.original_sr = args.target_sr) =>
        /\ spc # "raised"
        /\ heap[data] = original
        /\ spc = "returned" =>
              /\ ret.array # data
              /\ heap[ret.array] = original
        /\ spc = "written" =>
              /\ ret.array # data
              /\ heap[ret.array] # original
              /\ Len(heap[ret.array]) = Len(original)

\* the result of a call with equal rates and an unknown method has been written
\* to, and the signal passed in has several samples
C16_Witness ==
    /\ fn = "resample_signal"
    /\ spc = "written"
    /\ args.original_sr = args.target_sr
    /\ args.method = "bogus"
    /\ Len(original) >= 2
    /\ heap[ret.array] # heap[data]

\* ---- C17 as claimed: for a signal of n >= 2 samples and a target rate different
\* from the source rate, the output of resample_signal has
\* floor(duration * target_rate) samples, where duration = n / source_rate.
C17_OutputLength ==
    (fn = "resample_signal" /\ spc # "call"
        /\ args.method \in INTERP_KINDS /\ Len(original) >= MinPoints(args.method)
        /\ Len(original) >= 2 /\ args.original_sr # args.target_sr) =>
        /\ spc = "returned"
        /\ Len(heap[ret.array]) = (Len(original) * args.target_sr) \div args.original_sr

\* ---- C18 as claimed: resample_signal called with a method other than 'linear',
\* 'cubic' or 'nearest' raises and never returns a signal, for every signal and
\* every pair of rates, equal rates included.
C18_InvalidMethodRaises ==
    (fn = "resample_signal" /\ spc # "call"
        /\ args.method \notin {"linear", "cubic", "nearest"}) =>
        spc = "raised"

\* the spread the method divides by is zero
ZeroSpread(x, method) ==
    CASE method = "robust" -> PercentileNum(x, 75) = PercentileNum(x, 25)
      [] OTHER -> MaxOf(x) = MinOf(x)

AbsDevSum(window) ==
    LET m == Len(window)
        total == SumSeq(window)
    IN  Q(SumSeq([j \in 1..m |-> Abs(m * window[j] - total)]), m)

\* ---- C20: compute_activity_counts on a signal of n samples with window length
\* w = int(epoch_duration * fs) >= 1 returns exactly floor(n / w) counts; count i
\* (from 0) is the sum over samples i*w .. i*w + w - 1 of the absolute deviation
\* from the mean of that window, so it is >= 0 and is 0 for a constant window;
\* the n mod w samples at the tail influence no count.
C20_ActivityCounts ==
    (fn = "compute_activity_counts" /\ spc # "call"
        /\ IntOf(args.epoch_duration[1] * args.fs, args.epoch_duration[2]) >= 1) =>
        LET w == IntOf(args.epoch_duration[1] * args.fs, args.epoch_duration[2])
            n == Len(original)
            counts == heap[ret.array]
            cut == compute_activity_counts(<<SubSeq(original, 1, (n \div w) * w)>>, 1,
                                           args.fs, args.epoch_duration)
        IN  /\ spc = "returned"
            /\ heap[data] = original
            /\ Len(counts) = n \div w
            /\ \A i \in 0..(Len(counts) - 1) :
                  LET window == SubSeq(original, i * w + 1, i * w + w)
                  IN  /\ counts[i + 1] = AbsDevSum(window)
                      /\ counts[i + 1][2] >= 0
                      /\ Constant(window) => IsZero(counts[i + 1])
            /\ cut.heap[cut.array] = counts

\* a full window of several samples that is not constant, and a sample left over
\* at the tail
C20_Witness ==
    /\ fn = "compute_activity_counts"
    /\ spc = "returned"
    /\ args.fs = 2
    /\ Len(original) % 2 = 1
    /\ original[Len(original)] # 0
    /\ Len(heap[ret.array]) >= 1
    /\ ~IsZero(heap[ret.array][1])

\* ---- C21: detect_ppg_peaks returns strictly increasing peak indices in which
\* two consecutive peaks are at least int(min_distance * fs) samples apart, with
\* amplitudes such that amplitude i is the waveform value at peak index i; so every
\* inter-beat interval derived from them is at least
\* int(min_distance * fs) * 1000 / fs ms.
C21_PeakSpacing ==
    (fn = "detect_ppg_peaks" /\ spc = "returned") =>
        LET peaks == heap[ret.array]
            values == heap[ret.array + 1]
            min_samples == IntOf(MIN_DISTANCE[1] * args.fs, MIN_DISTANCE[2])
            ibi_ms == compute_ibi_from_peaks(peaks, args.fs)
        IN  /\ heap[data] = original
            /\ \A i \in 1..Len(peaks) : peaks[i] \in 0..(Len(original) - 1)
            /\ \A i \in 1..(Len(peaks) - 1) :
                  /\ peaks[i] < peaks[i + 1]
                  /\ peaks[i + 1] - peaks[i] >= min_samples
            /\ Len(values) = Len(peaks)
            /\ \A i \in 1..Len(peaks) : values[i] = original[peaks[i] + 1]
            /\ Len(ibi_ms.num) = Len(peaks) - (IF peaks = <<>> THEN 0 ELSE 1)
            /\ \A i \in 1..Len(ibi_ms.num) :
                  ibi_ms.num[i] * args.fs >= min_samples * 1000 * ibi_ms.den

\* two peaks have been returned, and a prominent local maximum between or beside
\* them was too close to a higher one
C21_Witness ==
    /\ fn = "detect_ppg_peaks"
    /\ spc = "returned"
    /\ Len(heap[ret.array]) >= 2
    /\ \E m \in LocalMaxima(original) :
          /\ Prominent(original, m)
          /\ \A i \in 1..Len(heap[ret.array]) : heap[ret.array][i] # m

\* ---- C22 as claimed: every place that turns a resolution string into a
\* sampling rate (get_sampling_rate, DREAMTLoader.get_time_vector on a table without
\* timestamps, DREAMTLoader.get_epoch_data) fails with an error for a string other
\* than '64Hz' or '100Hz'; none silently substitutes a default rate.
C22_UnknownResolutionRaises ==
    (/\ fn \in {"get_sampling_rate", "get_time_vector", "get_epoch_data"}
     /\ spc # "call"
     /\ args.resolution \notin {"64Hz", "100Hz"}
     /\ fn = "get_time_vector" => ~args.has_timestamp) =>
        spc = "raised"

\* every spectral feature name over the prefixes the extractor uses
SpectralNames ==
    {StatKey(p, SPECTRAL_SUFFIXES[i]) :
        p \in StatPrefixes \cup {"imu", "hr", "hrv"}, i \in 1..Len(SPECTRAL_SUFFIXES)}

\* ---- C23: spectral features are opt-in only: for every table and every
\* combination of include_imu / include_ppg, no epoch and no column of the table
\* returned by extract_all_features carries a spectral feature name (total_power,
\* dominant_freq, vlf_power, lf_power, hf_power, lf_hf_ratio); an explicit call of
\* extract_frequency_features on the pulse samples of the same epoch produces
\* exactly these six names.
C23_SpectralOptIn ==
    /\ \A k \in 1..Len(epochs) :
          /\ KeySet(epochs[k]) \cap SpectralNames = {}
          /\ (UsesPpg /\ EpochRows(k).n >= 2) =>
                LET f == extract_frequency_features(EpochRows(k).data["BVP"], "ppg", self.fs)
                IN  /\ ~f.raised
                    /\ Keys(f.features) =
                          [i \in 1..Len(SPECTRAL_SUFFIXES) |->
                              StatKey("ppg", SPECTRAL_SUFFIXES[i])]
                    /\ KeySet(f.features) \subseteq SpectralNames
    /\ pc = "returned" =>
          \A table \in {Result} :
              {table.columns[i] : i \in 1..Len(table.columns)} \cap SpectralNames = {}

\* a call with both modalities extracted has returned a table of several epochs
\* of several samples
C23_Witness ==
    /\ pc = "returned"
    /\ include_imu /\ HasImu(df) /\ UsesPpg
    /\ Len(epochs) >= 2
    /\ EpochRows(1).n >= 2
    /\ HasKey(epochs[1], "ppg_mean")
    /\ HasKey(epochs[1], "imu_mag_mean")

\* the extractor constructed anew with the configuration of self
Fresh == FeatureExtractor(self.epoch_duration, self.fs, self.overlap)

C24_Step ==
    /\ self' = self
    /\ self = Fresh
    /\ pc' # "call" =>
          /\ df' = df
          /\ include_imu' = include_imu
          /\ include_ppg' = include_ppg
    /\ (pc = "call" /\ pc' = "raised") => Fresh.step_size = 0
    /\ (pc = "loop" /\ pc' # "returned") =>
          LET alone == EpochFeatures(Fresh, df, Len(epochs) * Fresh.step_size,
                                     include_imu, include_ppg, peaks_out')
          IN  /\ (pc' = "raised") <=> alone.raised
              /\ pc' = "loop" => epochs' = Append(epochs, alone.features)
    /\ pc' = "returned" =>
          /\ epochs' = epochs
          /\ Len(epochs) = IF df.n >= Fresh.samples_per_epoch
                           THEN ((df.n - Fresh.samples_per_epoch) \div Fresh.step_size) + 1
                           ELSE 0

\* ---- C24: extract_all_features keeps no state between calls: no step of a call
\* changes epoch_duration, fs, overlap, samples_per_epoch or step_size of the
\* extractor or the table passed in, and in every call of a sequence of calls every
\* epoch, the number of epochs and a failure are those of the same call made alone
\* on a fresh extractor with the same configuration (with the same outcomes of
\* the peak detection).
C24_NoStateBetweenCalls == [][C24_Step]_vars

\* a later call on the same extractor has returned several epochs
C24_Witness ==
    /\ calls = 2
    /\ pc = "returned"
    /\ Len(epochs) >= 2
    /\ UsesPpg

\* ---- C26 as claimed: in the TFLite training script the split is made by
\* participant: once the script has split the epochs, no participant has an
\* epoch among the training rows and another among the test rows
C26_SplitByParticipant ==
    tpc = "split" =>
        \A rows \in {AllDicts(all_features)} :
            \A r \in train_rows : \A q \in test_rows :
                PidOf(rows[r]) # PidOf(rows[q])

\* ---- C27: the zero_crossings feature of a channel is the number of adjacent
\* pairs (i, i+1) of its samples that are not NaN in which exactly one sample is
\* strictly below the mean the call reports; a sample equal to the mean is not
\* below it; so the feature lies between 0 and n - 1 for n such samples
C27_ZeroCrossings ==
    (fn = "_compute_statistical_features" /\ spc = "returned"
        /\ SelectValid(original) # <<>>) =>
        LET x == SelectValid(original)
            n == Len(x)
            mean == Get(ret.dict, StatKey(args.prefix, "mean"))
            Below(i) == x[i] * mean[3] < mean[2]
            crossings == Cardinality({i \in 1..(n - 1) : Below(i) # Below(i + 1)})
        IN  /\ Get(ret.dict, StatKey(args.prefix, "zero_crossings")) = <<"q", crossings, 1>>
            /\ 0 <= crossings
            /\ crossings <= n - 1

\* a channel with a sample equal to the mean between one above and one below the
\* mean: the step down to the mean is no crossing, the step below it is one
C27_Witness ==
    /\ fn = "_compute_statistical_features"
    /\ spc = "returned"
    /\ SelectValid(original) = <<1, 0, -2, 1>>
    /\ Get(ret.dict, StatKey(args.prefix, "mean")) = <<"q", 0, 1>>
    /\ Get(ret.dict, StatKey(args.prefix, "zero_crossings")) = <<"q", 2, 1>>

\* ---- C28: whenever _compute_hrv_features emits HRV features, for every
\* interval sequence, 0 <= hrv_pnn50 <= hrv_pnn20 <= 100, hrv_sdnn >= 0,
\* hrv_rmssd >= 0 and 300 < hrv_mean_ibi < 2000
C28_HrvRanges ==
    (hpc = "done" /\ hrv # <<>>) =>
        LET mean_ibi == Get(hrv, "hrv_mean_ibi")
            sdnn     == Get(hrv, "hrv_sdnn")
            rmssd    == Get(hrv, "hrv_rmssd")
            pnn50    == Get(hrv, "hrv_pnn50")
            pnn20    == Get(hrv, "hrv_pnn20")
        IN  /\ pnn50[1] = "q" /\ pnn20[1] = "q" /\ mean_ibi[1] = "q"
            /\ pnn50[3] > 0 /\ pnn20[3] > 0 /\ mean_ibi[3] > 0
            /\ 0 <= pnn50[2]
            /\ pnn50[2] * pnn20[3] <= pnn20[2] * pnn50[3]
            /\ pnn20[2] <= 100 * pnn20[3]
            /\ sdnn[1] = "sqrt" /\ sdnn[2] >= 0 /\ sdnn[3] > 0
            /\ rmssd[1] = "sqrt" /\ rmssd[2] >= 0 /\ rmssd[3] > 0
            /\ IBI_LOW * mean_ibi[3] < mean_ibi[2]
            /\ mean_ibi[2] < IBI_HIGH * mean_ibi[3]

\* features were emitted after an interval at an end of the band was dropped,
\* and some but not all successive differences above 20 ms are above 50 ms
C28_Witness ==
    /\ hpc = "done"
    /\ hrv # <<>>
    /\ \E i \in 1..Len(ibi.num) : ibi.num[i] \in {IBI_LOW * ibi.den, IBI_HIGH * ibi.den}
    /\ Get(hrv, "hrv_pnn50")[2] > 0
    /\ Get(hrv, "hrv_pnn50") # Get(hrv, "hrv_pnn20")
    /\ ~IsZero(Get(hrv, "hrv_sdnn"))

\* ---- C29: extract_all_features always terminates. With a step of 0 the call
\* raises before any epoch; otherwise every iteration that goes on moves the start
\* up, the starts visited are strictly increasing, there are at most
\* n_samples - samples_per_epoch + 1 epochs, and every call that has begun ends by
\* returning or raising
C29_Step ==
    /\ (pc = "call" /\ self.step_size = 0) => (pc' = "raised" /\ epochs' = epochs)
    /\ (pc = "loop" /\ pc' = "loop") =>
          /\ self.step_size >= 1
          /\ start' > start
          /\ Len(epochs') = Len(epochs) + 1
    /\ \A i \in 1..(Len(windows') - 1) : windows'[i][1] < windows'[i + 1][1]
    /\ Len(windows') <= Max(0, df'.n - self'.samples_per_epoch + 1)

C29_Terminates ==
    /\ [][C29_Step]_vars
    /\ (pc \in {"call", "loop"}) ~> (pc \in {"returned", "raised"})

\* a call with an overlap of 3/4 (windows of 4 samples, a step of 1) has returned
\* after three or more epochs
C29_Witness ==
    /\ pc = "returned"
    /\ self.samples_per_epoch = 4
    /\ self.step_size = 1
    /\ Len(windows) >= 3
    /\ Len(epochs) = Len(windows)

\* ---- C30: extract_all_features never emits a row whose Sleep_Stage is missing:
\* with the label column in the table, every epoch built carries a label that is
\* not missing and occurs among its rows, so does every row of the table
\* returned, and once the loop has come to an epoch without any label that is
\* not missing the call has failed: it returns no table, the rows of the epochs
\* before included
C30_NoMissingLabel ==
    "Sleep_Stage" \in df.columns =>
        /\ \A k \in 1..Len(epochs) :
              /\ HasKey(epochs[k], "Sleep_Stage")
              /\ Get(epochs[k], "Sleep_Stage")[1] = "label"
              /\ EpochLabel(k) \in Present(WindowLabels(k))
        /\ \A table \in {Result} :
              \A r \in 1..Len(table.rows) :
                  /\ ColumnOf(table, "Sleep_Stage")[r] # <<"nan">>
                  /\ ColumnOf(table, "Sleep_Stage")[r] # <<"label", NoLabel>>
        /\ (\E k \in 1..Len(windows) : Present(WindowLabels(k)) = {}) =>
              /\ pc = "raised"
              /\ Result = NoFrame
              /\ Len(epochs) = Len(windows) - 1

\* the second epoch has no label at all: the call has failed after it had built
\* the row of the first epoch
C30_Witness ==
    /\ "Sleep_Stage" \in df.columns
    /\ pc = "raised"
    /\ Len(windows) = 2
    /\ Len(epochs) = 1
    /\ Present(WindowLabels(1)) # {}
    /\ Present(WindowLabels(2)) = {}
    /\ Result = NoFrame

====
